---- MODULE Spec2Model ----
(***************************************************************************)
(* Webhook ingestion gateway of ggardiakos/shopsrc.                        *)
(*                                                                         *)
(* ShopifyWebhooksController.handleWebhook (src/unnamed/part_002) is       *)
(* modelled as one process per request slot, cut at its awaits: the        *)
(* synchronous prefix (header extraction, payload validation, IP, token,   *)
(* signature, timestamp/nonce), the Redis GET, the handler lookup that     *)
(* follows getCachedData's return, the Bull add, the Redis SET and the     *)
(* CloudWatch log before the return; in the catch block the Slack          *)
(* notification and the CloudWatch log before handleError throws.  The     *)
(* controller's handler list is state: registerWebhookHandler and          *)
(* registerWebhookHandlers are public and append to it.                    *)
(*                                                                         *)
(* The Bull queue (library semantics of attempts and backoff) is modelled  *)
(* for the jobs the controller and BullQueueService.addTask create, with   *)
(* the service's other operations (src/unnamed/part_009) cut at their      *)
(* awaits: removeJob, retryJob and updateJob at getJob and at the job's    *)
(* operation, cleanOldJobs at its two clean calls.  A job's handler ends   *)
(* in one step and Bull moves the job in a later one.                      *)
(*                                                                         *)
(* Also modelled: QueueProcessor of 'my-queue' (src/queue), whose catch    *)
(* runs before Bull moves the job; the opossum circuit breaker the         *)
(* controller constructs; ShopifyWebhooksService (registerWebhooks,        *)
(* unregisterWebhooks, subscriptions kept per shop) and the two CsrfGuard  *)
(* classes (src/guard).  Each has its own specification over the shared    *)
(* variables.                                                              *)
(*                                                                         *)
(* Idealisations: HMAC-SHA256 and base64 are collision free (a digest is   *)
(* a term of its key and its message; the message of the CSRF hash is the  *)
(* concatenated text the code builds); the payload of a job is not kept;   *)
(* the breaker's timers fire on the boundaries of its one-second buckets.  *)
(***************************************************************************)
EXTENDS Integers, Sequences, FiniteSets, TLC

VARIABLES
    now,        \* Date.now(), milliseconds
    slot,       \* request slot -> the handleWebhook invocation running in it
    store,      \* the Redis keys written by the controller: key -> <<>> or <<value, expireAt>>
    usedNonces, \* ShopifyWebhooksController.usedNonces
    jobs,       \* the Bull jobs, in creation order
    nonceLog,   \* history: the requests that passed the nonce check, <<nonce, time>>
    vBody,      \* signature check in isolation: raw body bytes
    vSig,       \* signature check in isolation: x-shopify-hmac-sha256 header
    vOutcome,   \* signature check in isolation: "unchecked", "accepted", "rejected"
    alerts,     \* history: the triggerAlert calls of QueueProcessor, <<job, attempt>>
    breaker,    \* ShopifyWebhooksController.breaker and the calls made through it
    reg,        \* the running ShopifyWebhooksService operation and its API calls
    guard,      \* a CsrfGuard.canActivate call: the request and its outcome
    taskQueue,  \* BullQueueService.taskQueue: paused or not, and the outcome of the service's last call
    webhookHandlers \* ShopifyWebhooksController.webhookHandlers

vars == <<now, slot, store, usedNonces, jobs, nonceLog, vBody, vSig, vOutcome,
          alerts, breaker, reg, guard, taskQueue,
          webhookHandlers>>

-----------------------------------------------------------------------------
(* Bounds of the model *)

\* concurrent handleWebhook invocations in SpecConc
MaxInflight == 2
\* Bull jobs created in one behaviour
MaxJobs == 2
\* clock advances in one behaviour
MaxTicks == 2
\* length of a raw body in bytes
MaxBodyLen == 2
\* calls made through the circuit breaker in one behaviour
MaxCalls == 4
\* entries of the configured topic list (SHOPIFY_WEBHOOK_TOPICS)
MaxTopics == 2
\* retryJob calls on one job
MaxRetries == 1
\* jobs added through addTask while the service's other operations run
MaxTaskJobs == 1
\* entries of the controller's handler list
MaxHandlers == 4

-----------------------------------------------------------------------------
(* Program constants *)

\* redis.set(cacheKey, 'processed', 'EX', 3600)
DedupTtlSec == 3600
\* 5 * 60 * 1000 in validateTimestampAndNonce
ReplayWindowMs == 5 * 60 * 1000
\* attempts: 3 in BullQueueService.addTask
AddTaskAttempts == 3
\* backoff delay: 1000 in BullQueueService.addTask
AddTaskBackoffMs == 1000
\* QUEUE_RETRY_ATTEMPTS default of QueueModule's 'my-queue'
MyQueueAttempts == 3
\* QUEUE_RETRY_BACKOFF_DELAY default of QueueModule's 'my-queue'
MyQueueBackoffMs == 1000

\* one clock advance: half the dedup TTL
TickMs == 30 * 60 * 1000

\* configuration values (ConfigService)
SHOPIFY_IPS == {"23.227.38.32"}
SHOPIFY_AUTH_TOKEN == "token"
SHOPIFY_WEBHOOK_SECRET == "secret"

-----------------------------------------------------------------------------
(* Buffer.toString() and createHmac(...).update(string).digest('base64') *)

\* U+FFFD, what the UTF-8 decoder puts for an invalid byte
Replacement == 65533

IsCont(b) == b >= 128 /\ b <= 191
IsLead2(b) == b >= 194 /\ b <= 223

\* rawBody.toString(): UTF-8 decoding of bytes (one- and two-byte forms; every
\* other byte of 128..255 outside a valid two-byte form decodes to U+FFFD,
\* which is exact for the bytes 128..193 and 245..255 the model draws)
RECURSIVE Utf8Decode(_)
Utf8Decode(bytes) ==
    IF bytes = <<>> THEN <<>>
    ELSE LET b == Head(bytes) IN
         IF b < 128 THEN <<b>> \o Utf8Decode(Tail(bytes))
         ELSE IF IsLead2(b) /\ Len(bytes) >= 2 /\ IsCont(bytes[2])
              THEN <<(b - 192) * 64 + (bytes[2] - 128)>> \o Utf8Decode(Tail(Tail(bytes)))
              ELSE <<Replacement>> \o Utf8Decode(Tail(bytes))

\* hash.update(string): the string's UTF-8 encoding
RECURSIVE Utf8Encode(_)
Utf8Encode(cps) ==
    IF cps = <<>> THEN <<>>
    ELSE LET c == Head(cps) IN
         (IF c < 128 THEN <<c>>
          ELSE IF c < 2048 THEN <<192 + (c \div 64), 128 + (c % 64)>>
          ELSE <<224 + (c \div 4096), 128 + ((c \div 64) % 64), 128 + (c % 64)>>)
         \o Utf8Encode(Tail(cps))

\* HMAC-SHA256 digest of a byte sequence under a key, base64 encoded: a
\* collision-free term; the fourth component numbers a byte of the encoded
\* text that was altered afterwards (0: none)
Base64Hmac(key, bytes) == <<"hmac-sha256", key, bytes, 0>>

\* the header value a sender holding the key computes over the exact bytes
SenderSignature(key, bytes) == Base64Hmac(key, bytes)

\* the absent header
NoSignature == <<>>

\* computeHmacSignature(rawBody: string)
computeHmacSignature(rawBodyStr) ==
    Base64Hmac(SHOPIFY_WEBHOOK_SECRET, Utf8Encode(rawBodyStr))

\* validateWebhookSignature: TRUE when it does not throw
validateWebhookSignature(rawBodyStr, hmacHeader) ==
    ~(hmacHeader # computeHmacSignature(rawBodyStr))

-----------------------------------------------------------------------------
(* Requests and responses *)

\* an absent header is the empty string (falsy, like undefined); an absent or
\* non-numeric x-shopify-timestamp is <<>> (Number(...) is NaN), else <<ms>>
NoReq ==
    [topic |-> "", domain |-> "", webhookId |-> "", hmac |-> NoSignature,
     nonce |-> "", timestamp |-> <<>>, token |-> "", ip |-> "", body |-> <<>>]

NoResp == [status |-> 0, success |-> FALSE, message |-> "", missing |-> <<>>]

\* an exception: the class thrown and its message
NoError == [kind |-> "", message |-> "", missing |-> <<>>]
Exception(kind, message) == [kind |-> kind, message |-> message, missing |-> <<>>]

\* the status Nest answers for an exception that leaves the controller
StatusOf(kind) ==
    CASE kind = "BadRequestException" -> 400
      [] kind = "UnauthorizedException" -> 401
      [] kind = "ForbiddenException" -> 403
      [] kind = "NotFoundException" -> 404
      [] OTHER -> 500

Thrown(e) ==
    [status |-> StatusOf(e.kind), success |-> FALSE,
     message |-> IF StatusOf(e.kind) = 500 /\ e.kind # "InternalServerErrorException"
                 THEN "Internal server error" ELSE e.message,
     missing |-> e.missing]

Returned(message) ==
    [status |-> 200, success |-> TRUE, message |-> message, missing |-> <<>>]

\* `return;` under @HttpCode(200): status 200, no body
ReturnedNothing == [status |-> 200, success |-> FALSE, message |-> "", missing |-> <<>>]

-----------------------------------------------------------------------------
(* The synchronous checks of handleWebhook *)

\* extractHeaders as it would be if it stopped at the first missing header
extractHeaders_FirstOnly(req) ==
    IF req.topic = "" THEN <<"Topic">>
    ELSE IF req.domain = "" THEN <<"Domain">>
    ELSE IF req.webhookId = "" THEN <<"WebhookId">>
    ELSE <<>>

\* extractHeaders: the names pushed to missingHeaders, in order
extractHeaders(req) ==
    (IF req.topic = "" THEN <<"Topic">> ELSE <<>>)
    \o (IF req.domain = "" THEN <<"Domain">> ELSE <<>>)
    \o (IF req.webhookId = "" THEN <<"WebhookId">> ELSE <<>>)

MissingHeadersError(missing) ==
    [kind |-> "BadRequestException", message |-> "Missing required HTTP headers",
     missing |-> missing]

\* webhookSchema.validate({rawBody: sanitizedPayload, headers}): rawBody is any
\* defined value, the three headers are required (non-empty) strings
webhookSchemaValid(req) ==
    req.topic # "" /\ req.domain # "" /\ req.webhookId # ""

\* validateIp: TRUE when it does not throw
validateIp(req) == req.ip \in SHOPIFY_IPS

\* validateAuth: TRUE when it does not throw
validateAuth(req) == ~(req.token = "" \/ req.token # SHOPIFY_AUTH_TOKEN)

\* currentTime - timestamp > 5 * 60 * 1000, with NaN comparing false
TimestampTooOld(currentTime, timestamp) ==
    timestamp # <<>> /\ currentTime - timestamp[1] > ReplayWindowMs

\* validateTimestampAndNonce as it would be if it recorded the nonce before
\* the timestamp check
validateTimestampAndNonce_AddFirst(req, currentTime, nonces) ==
    IF req.nonce # ""
    THEN IF req.nonce \in nonces
         THEN [error |-> Exception("BadRequestException", "Nonce has already been used"),
               nonces |-> nonces, recorded |-> FALSE]
         ELSE IF TimestampTooOld(currentTime, req.timestamp)
              THEN [error |-> Exception("BadRequestException", "Timestamp too old"),
                    nonces |-> nonces \cup {req.nonce}, recorded |-> FALSE]
              ELSE [error |-> NoError, nonces |-> nonces \cup {req.nonce}, recorded |-> TRUE]
    ELSE [error |-> NoError, nonces |-> nonces, recorded |-> FALSE]

\* validateTimestampAndNonce as it would be without this.usedNonces.add(nonce)
validateTimestampAndNonce_NoAdd(req, currentTime, nonces) ==
    IF req.nonce # ""
    THEN IF req.nonce \in nonces
         THEN [error |-> Exception("BadRequestException", "Nonce has already been used"),
               nonces |-> nonces, recorded |-> FALSE]
         ELSE IF TimestampTooOld(currentTime, req.timestamp)
              THEN [error |-> Exception("BadRequestException", "Timestamp too old"),
                    nonces |-> nonces, recorded |-> FALSE]
              ELSE [error |-> NoError, nonces |-> nonces, recorded |-> TRUE]
    ELSE [error |-> NoError, nonces |-> nonces, recorded |-> FALSE]

\* validateTimestampAndNonce: the exception thrown (NoError when none), the set
\* usedNonces is left with, and whether the request's nonce passed the check
validateTimestampAndNonce(req, currentTime, nonces) ==
    IF req.nonce # ""
    THEN IF req.nonce \in nonces
         THEN [error |-> Exception("BadRequestException", "Nonce has already been used"),
               nonces |-> nonces, recorded |-> FALSE]
         ELSE IF TimestampTooOld(currentTime, req.timestamp)
              THEN [error |-> Exception("BadRequestException", "Timestamp too old"),
                    nonces |-> nonces, recorded |-> FALSE]
              ELSE [error |-> NoError, nonces |-> nonces \cup {req.nonce}, recorded |-> TRUE]
    ELSE [error |-> NoError, nonces |-> nonces, recorded |-> FALSE]

\* lines 266-286: the checks in order, stopping at the first that throws
SecurityChecks(req, currentTime, nonces) ==
    IF ~webhookSchemaValid(req)
    THEN [error |-> Exception("BadRequestException", "Invalid webhook payload"),
          nonces |-> nonces, recorded |-> FALSE, ran |-> <<"payload">>]
    ELSE IF ~validateIp(req)
    THEN [error |-> Exception("ForbiddenException", "Unauthorized IP address"),
          nonces |-> nonces, recorded |-> FALSE, ran |-> <<"payload", "ip">>]
    ELSE IF ~validateAuth(req)
    THEN [error |-> Exception("UnauthorizedException", "Invalid authentication token"),
          nonces |-> nonces, recorded |-> FALSE, ran |-> <<"payload", "ip", "auth">>]
    ELSE IF ~validateWebhookSignature(Utf8Decode(req.body), req.hmac)
    THEN [error |-> Exception("BadRequestException", "Invalid HMAC signature"),
          nonces |-> nonces, recorded |-> FALSE,
          ran |-> <<"payload", "ip", "auth", "signature">>]
    ELSE LET n == validateTimestampAndNonce(req, currentTime, nonces) IN
         [error |-> n.error, nonces |-> n.nonces, recorded |-> n.recorded,
          ran |-> <<"payload", "ip", "auth", "signature", "nonce">>]

\* handleError: the exception it throws for the one it is given
handleError(e) ==
    IF e.kind = "BadRequestException" THEN e
    ELSE IF e.kind = "NotFoundException" THEN e
    ELSE Exception("InternalServerErrorException",
                   "An error occurred while processing the webhook")

\* the catch block of handleWebhook: notifyFailure is awaited before handleError,
\* so an exception of slack.send leaves the handler in place of the original one
CatchResponse(e, slackOk) ==
    IF slackOk THEN Thrown(handleError(e))
    ELSE Thrown(Exception("Error", "slack.send failed"))

-----------------------------------------------------------------------------
(* The dedup store (Redis) and the handler list *)

\* redis.get(key): <<>> for null
RedisGet(st, key, t) ==
    IF st[key] # <<>> /\ t < st[key][2] THEN <<st[key][1]>> ELSE <<>>

\* redis.set(key, value, 'EX', seconds)
RedisSetEx(st, key, value, seconds, t) ==
    [st EXCEPT ![key] = <<value, t + seconds * 1000>>]

\* Redis drops a key once its expiry has passed
RedisExpire(st, t) ==
    [k \in DOMAIN st |-> IF st[k] # <<>> /\ t >= st[k][2] THEN <<>> ELSE st[k]]

\* JSON.parse(text) on the texts the model stores or compares: it throws a
\* SyntaxError, or gives a value that is truthy or falsy
JsonParse(text) ==
    IF text \in {"true", "\"processed\""} THEN "truthy"
    ELSE IF text \in {"null", "false"} THEN "falsy"
    ELSE "throws"

\* the handlers registerWebhookHandlers registers, in order (a handler is
\* kept by its topic; its callback is the bound method for that topic)
BuiltinHandlers == <<[topic |-> "orders/create"], [topic |-> "products/update"]>>

\* this.webhookHandlers.filter((handler) => handler.topic === topic)
MatchingHandlers(topic) ==
    LET Same(h) == h.topic = topic IN SelectSeq(webhookHandlers, Same)

-----------------------------------------------------------------------------
(* Bull: job creation *)

\* the queue BullQueueService is given: process.env.BULL_QUEUE_NAME || 'default'
TaskQueueName == "default"

\* no call of the service waits for the answer to an operation on a job
\* (data: the TaskData of an updateJob call)
NoJobCall == [op |-> "", id |-> 0, data |-> [type |-> "", payload |-> ""]]

\* the task queue runs; call is the call of the service that waits for the
\* answer to its operation on a job; cleaning is the grace period of the
\* cleanOldJobs call that waits for its second clean (0: none); thrown is
\* what the last call of the service threw ("" when it returned)
InitTaskQueue == [paused |-> FALSE, call |-> NoJobCall, cleaning |-> 0, thrown |-> ""]

\* job options: a field is <<>> when not given, <<n>> when given
\* (attempts: n; backoff: {type: 'exponential', delay: n})
NoOpts == [attempts |-> <<>>, backoff |-> <<>>]

\* {...a, ...b}
MergeOpts(a, b) ==
    [attempts |-> IF b.attempts # <<>> THEN b.attempts ELSE a.attempts,
     backoff |-> IF b.backoff # <<>> THEN b.backoff ELSE a.backoff]

\* defaultJobOptions of the registered queues: QueueModule registers 'my-queue'
QueueDefaultOpts(queue) ==
    IF queue = "my-queue"
    THEN [attempts |-> <<MyQueueAttempts>>, backoff |-> <<MyQueueBackoffMs>>]
    ELSE NoOpts

\* Bull's Job: opts.attempts of a new job (1 when neither the call nor the
\* queue's defaultJobOptions give it)
JobAttempts(queue, opts) ==
    LET merged == MergeOpts(QueueDefaultOpts(queue), opts) IN
    IF merged.attempts = <<>> THEN 1 ELSE merged.attempts[1]

\* Bull's Job: the backoff delay of a new job (0 when none is given)
JobBackoff(queue, opts) ==
    LET merged == MergeOpts(QueueDefaultOpts(queue), opts) IN
    IF merged.backoff = <<>> THEN 0 ELSE merged.backoff[1]

\* queue.add as it would be if the job were not stored
BullAdd_Dropped(js, queue, name, data, opts) == js

\* queue.add(name, data, opts): opts is kept as given, attempts and backoff
\* as Bull resolves them; the job's id is its position; finishedOn is 0 until
\* the job has completed or failed; retried counts its job.retry() calls;
\* handled is how the processor's handler ended ("returned", "threw") while
\* Bull has not moved the job yet
BullAdd(js, queue, name, data, opts) ==
    Append(js, [queue |-> queue, name |-> name, data |-> data, opts |-> opts,
                attempts |-> JobAttempts(queue, opts),
                backoff |-> JobBackoff(queue, opts),
                attemptsMade |-> 0, state |-> "waiting", runAt |-> 0,
                finishedOn |-> 0, retried |-> 0, handled |-> ""])

\* the options addTask hands to queue.add: its defaults under the caller's
addTaskOptions(jobOptions) ==
    MergeOpts([attempts |-> <<AddTaskAttempts>>, backoff |-> <<AddTaskBackoffMs>>],
              jobOptions)

RECURSIVE Pow2(_)
Pow2(n) == IF n <= 0 THEN 1 ELSE 2 * Pow2(n - 1)

\* Bull's built-in 'exponential' backoff strategy:
\* Math.round((Math.pow(2, attemptsMade) - 1) * delay)
ExponentialDelay(delay, attemptsMade) == (Pow2(attemptsMade) - 1) * delay

\* Bull's moveToFailed: the job after an attempt that threw at time t
JobAfterFailure(job, t) ==
    LET made == job.attemptsMade + 1 IN
    IF made < job.attempts
    THEN IF job.backoff > 0
         THEN [job EXCEPT !.attemptsMade = made, !.state = "delayed",
                          !.runAt = t + ExponentialDelay(job.backoff, made)]
         ELSE [job EXCEPT !.attemptsMade = made, !.state = "waiting"]
    ELSE [job EXCEPT !.attemptsMade = made, !.state = "failed", !.finishedOn = t]

\* Bull's moveToCompleted at time t
JobCompleted(job, t) == [job EXCEPT !.state = "completed", !.finishedOn = t]

\* queue.getJob(id) of the queue finds a job (a removed job is gone)
HasJob(js, queue, id) ==
    id \in 1..Len(js) /\ js[id].queue = queue /\ js[id].state # "removed"

\* what a call of Bull gives: the jobs after it and the error it throws
BullResult(js, thrown) == [jobs |-> js, thrown |-> thrown]

\* job.remove() as it would be if it removed a job a worker holds
BullRemove_Locked(js, id) == BullResult([js EXCEPT ![id].state = "removed"], "")

\* job.remove(): the job leaves the queue and its lists, unless a worker
\* holds its lock (the job is active): then nothing is removed and remove
\* throws 'Could not remove job'
BullRemove(js, id) ==
    IF js[id].state = "active" THEN BullResult(js, "Could not remove job")
    ELSE BullResult([js EXCEPT ![id].state = "removed"], "")

\* job.retry() as it would be if it gave the job its attempts back
BullRetry_Reset(js, id) ==
    IF js[id].state = "failed"
    THEN BullResult([js EXCEPT ![id].state = "waiting", ![id].finishedOn = 0,
                               ![id].attemptsMade = 0], "")
    ELSE BullResult(js, "Couldn't retry job")

\* job.retry(): a failed job goes back to waiting, finishedOn and failedReason
\* cleared, attemptsMade kept; any other job, and a job that is gone, makes
\* retry throw
BullRetry(js, id) ==
    IF js[id].state = "failed"
    THEN BullResult([js EXCEPT ![id].state = "waiting", ![id].finishedOn = 0,
                               ![id].retried = @ + 1], "")
    ELSE BullResult(js, "Couldn't retry job")

\* job.update(data); nothing of a job that is gone is kept
BullUpdate(js, id, data) ==
    IF js[id].state = "removed" THEN BullResult(js, "")
    ELSE BullResult([js EXCEPT ![id].data = data], "")

\* queue.clean(grace, status) at time t: the jobs of the queue in that state
\* that finished at least `grace` ago are removed
BullClean(js, queue, grace, status, t) ==
    [j \in 1..Len(js) |->
        IF js[j].queue = queue /\ js[j].state = status /\ js[j].finishedOn <= t - grace
        THEN [js[j] EXCEPT !.state = "removed"]
        ELSE js[j]]

-----------------------------------------------------------------------------
(* The circuit breaker: new CircuitBreaker(action, {timeout,                *)
(* errorThresholdPercentage, resetTimeout}) of opossum, other options at    *)
(* their defaults.  Its clock advances by one bucket of the rolling window. *)

\* configService.get('CB_TIMEOUT', 5000)
CB_TIMEOUT == 5000
\* configService.get('CB_ERROR_THRESHOLD', 50)
CB_ERROR_THRESHOLD == 50
\* configService.get('CB_RESET_TIMEOUT', 30000)
CB_RESET_TIMEOUT == 30000
\* opossum's defaults: rollingCountTimeout and rollingCountBuckets
RollingCountTimeout == 10000
RollingCountBuckets == 10

BucketMs == RollingCountTimeout \div RollingCountBuckets
TimeoutTicks == CB_TIMEOUT \div BucketMs
ResetTicks == CB_RESET_TIMEOUT \div BucketMs

EmptyBucket == [fires |-> 0, failures |-> 0]

\* state: closed, open, halfOpen; pendingClose: the half-open trial has not been
\* taken; window: the buckets of the rolling window, newest first; timer: the
\* buckets elapsed on the reset timer (-1: not running); inflight: the admitted
\* calls that have not settled, oldest first, each with its age in buckets
\* and the topic of the handler it was fired with; fired, invoked, rejected,
\* failed: the calls made, the calls of the action, the calls refused, the
\* failures counted (errors and timeouts); failedTopics, rejectedTopics: the
\* topics of the handlers whose call failed, whose call was refused
InitBreaker ==
    [state |-> "closed", pendingClose |-> FALSE,
     window |-> [i \in 1..RollingCountBuckets |-> EmptyBucket],
     timer |-> -1, inflight |-> <<>>, fired |-> 0, invoked |-> 0, rejected |-> 0,
     failed |-> 0, failedTopics |-> {}, rejectedTopics |-> {}]

RECURSIVE SumFires(_)
SumFires(w) == IF w = <<>> THEN 0 ELSE Head(w).fires + SumFires(Tail(w))

RECURSIVE SumFailures(_)
SumFailures(w) == IF w = <<>> THEN 0 ELSE Head(w).failures + SumFailures(Tail(w))

\* errorRate > errorThresholdPercentage with errorRate = failures / fires * 100
\* (a division by zero gives Infinity, or NaN for 0 / 0)
ErrorRateExceeds(w) ==
    IF SumFires(w) = 0 THEN SumFailures(w) > 0
    ELSE SumFailures(w) * 100 > CB_ERROR_THRESHOLD * SumFires(w)

\* circuit.open(): the reset timer starts when the state changes to open
BreakerOpen(b) ==
    IF b.state = "open" THEN b
    ELSE [b EXCEPT !.state = "open", !.pendingClose = FALSE, !.timer = 0]

\* circuit.close()
BreakerClose(b) ==
    IF b.state = "closed" THEN b
    ELSE [b EXCEPT !.state = "closed", !.pendingClose = FALSE, !.timer = -1]

\* fail() as it would be if it opened the circuit from half-open only
BreakerFail_HalfOpenOnly(b, k) ==
    LET counted == [b EXCEPT !.window[1].failures = @ + k, !.failed = @ + k] IN
    IF k = 0 THEN b
    ELSE IF counted.state = "halfOpen"
         THEN [counted EXCEPT !.state = "open", !.pendingClose = FALSE, !.timer = 0]
         ELSE counted

\* fail(): k failures are counted in the newest bucket, then the circuit
\* opens if the error rate exceeds the threshold or the circuit is half-open
BreakerFail(b, k) ==
    LET counted == [b EXCEPT !.window[1].failures = @ + k, !.failed = @ + k] IN
    IF k = 0 THEN b
    ELSE IF ErrorRateExceeds(counted.window) \/ counted.state = "halfOpen"
         THEN BreakerOpen(counted)
         ELSE counted

\* the 'success' listener as it would be if it closed the circuit in any state
BreakerSucceed_AnyState(b) ==
    IF b.state = "closed" THEN b
    ELSE [b EXCEPT !.state = "closed", !.pendingClose = FALSE, !.timer = -1]

\* the 'success' listener: a success while half-open closes the circuit
BreakerSucceed(b) == IF b.state = "halfOpen" THEN BreakerClose(b) ELSE b

\* the sequence without its i-th element
RemoveAt(seq, i) == SubSeq(seq, 1, i - 1) \o SubSeq(seq, i + 1, Len(seq))

-----------------------------------------------------------------------------
(* ShopifyWebhooksService: registerWebhooks and unregisterWebhooks *)

\* maxAttempts: 3 of the retry around shopifyApi.webhooks.register
RegisterMaxAttempts == 3

NoServiceError == [name |-> "", topic |-> "", shop |-> ""]

\* new WebhookRegistrationError(topic, shop, reason): the message names both
WebhookRegistrationError(topic, shop) ==
    [name |-> "WebhookRegistrationError", topic |-> topic, shop |-> shop]

\* new WebhookUnregistrationError(shop, reason)
WebhookUnregistrationError(shop) ==
    [name |-> "WebhookUnregistrationError", topic |-> "", shop |-> shop]

\* the value of a configuration key: unset, or a text.  A text is kept as the
\* sequence of its pieces: a piece is a comma or a run of other characters
\* (never empty, never next to another run); '' is <<>>.
\* configService.get(key, defaultValue)
configGet(config, defaultValue) == IF config.set THEN config.text ELSE defaultValue

\* text.split(','): the fields between the commas, '' for an empty field; the
\* split of '' is ['']
RECURSIVE Split(_)
Split(text) ==
    IF text = <<>> THEN <<"">>
    ELSE IF Head(text) = "," THEN <<"">> \o Split(Tail(text))
    ELSE LET rest == Split(Tail(text)) IN <<Head(text) \o rest[1]>> \o Tail(rest)

\* onModuleInit: webhookTopics = get('SHOPIFY_WEBHOOK_TOPICS', '').split(',')
onModuleInit(config) == Split(configGet(config, <<>>))

\* op, pc: the operation running and where it stands; config: the value of
\* SHOPIFY_WEBHOOK_TOPICS; topics: webhookTopics;
\* idx: the position of the for loop; attemptNum: the failed attempts of the
\* running retry; calls: the calls made to the external API by the operation;
\* events: the metrics it emitted; error: what the operation threw;
\* registered: the subscriptions the external API holds, <<shop, topic>>
IdleReg ==
    [op |-> "", pc |-> "idle", shop |-> "", config |-> [set |-> FALSE, text |-> <<>>],
     topics |-> <<>>, idx |-> 0,
     attemptNum |-> 0, calls |-> <<>>, events |-> <<>>, error |-> NoServiceError,
     registered |-> {}]

\* the delay option and the factor option of the retry
RegisterDelayMs == 1000
RegisterFactor == 2

RECURSIVE Pow(_, _)
Pow(base, n) == IF n <= 0 THEN 1 ELSE base * Pow(base, n - 1)

\* the retry's delay as it would be if the factor applied from the first retry
calculateDelay_FactorFirst(attemptNum) ==
    IF attemptNum = 0 THEN 0 ELSE RegisterDelayMs * Pow(RegisterFactor, attemptNum)

\* @lifeomic/attempt: no initial delay; before the attempt that follows
\* attemptNum failed ones it sleeps delay * factor^(attemptNum - 1)
calculateDelay(attemptNum) ==
    IF attemptNum = 0 THEN 0 ELSE RegisterDelayMs * Pow(RegisterFactor, attemptNum - 1)

\* a call of the external API: `after` is the delay slept before it
ApiCall(api, idx, topic, result, after) ==
    [api |-> api, idx |-> idx, topic |-> topic, result |-> result, after |-> after]

\* metrics.increment('shopify.webhook.<name>', 1, [shop, topic])
Metric(name, topic) == [name |-> name, topic |-> topic]

\* what one attempt emits as it would be if handleError were skipped on the
\* last attempt
AttemptEvents_NoLastRetry(topic, result, attemptNum) ==
    IF result = "success" THEN <<Metric("registration_success", topic)>>
    ELSE IF attemptNum + 1 >= RegisterMaxAttempts
         THEN <<Metric("registration_failure", topic)>>
         ELSE <<Metric("registration_retry", topic)>>

\* what one attempt emits: registration_success (line 49), or
\* registration_retry from handleError (line 65), which the retry calls for
\* every failed attempt, the last included, and then registration_failure
\* from the catch (line 75) when the attempts are used up
AttemptEvents(topic, result, attemptNum) ==
    IF result = "success" THEN <<Metric("registration_success", topic)>>
    ELSE IF attemptNum + 1 >= RegisterMaxAttempts
         THEN <<Metric("registration_retry", topic),
                Metric("registration_failure", topic)>>
         ELSE <<Metric("registration_retry", topic)>>

\* the call of register for the topic at r.idx and the events of the attempt
RegisterCalled(r, result) ==
    LET topic == r.topics[r.idx] IN
    [r EXCEPT !.calls = Append(@, ApiCall("register", r.idx, topic, result,
                                          calculateDelay(r.attemptNum))),
              !.events = @ \o AttemptEvents(topic, result, r.attemptNum)]

\* the call of deleteAll and its event (lines 89, 95)
UnregisterCalled(r, ok) ==
    [r EXCEPT !.calls = Append(@, ApiCall("deleteAll", 0, "",
                                          IF ok THEN "success" ELSE "throws", 0)),
              !.events = Append(@, Metric(IF ok THEN "unregistration_success"
                                          ELSE "unregistration_failure", ""))]

\* the retry as it would be with the exhaustion test off by one
registerWebhookStep_OneMore(r, result) ==
    LET topic == r.topics[r.idx]
        called == RegisterCalled(r, result)
    IN IF result = "success"
       THEN IF r.idx = Len(r.topics)
            THEN [called EXCEPT !.registered = @ \cup {<<r.shop, topic>>}, !.pc = "done"]
            ELSE [called EXCEPT !.registered = @ \cup {<<r.shop, topic>>}, !.idx = @ + 1,
                                !.attemptNum = 0]
       ELSE IF r.attemptNum >= RegisterMaxAttempts
            THEN [called EXCEPT !.pc = "done",
                                !.error = WebhookRegistrationError(topic, r.shop)]
            ELSE [called EXCEPT !.attemptNum = @ + 1]

\* registerWebhooks as it would be if it went on with the next topic after a
\* topic's retries are exhausted
registerWebhookStep_GoOn(r, result) ==
    LET topic == r.topics[r.idx]
        called == RegisterCalled(r, result)
    IN IF result = "success" \/ r.attemptNum + 1 >= RegisterMaxAttempts
       THEN LET kept == IF result = "success"
                        THEN [called EXCEPT !.registered = @ \cup {<<r.shop, topic>>}]
                        ELSE [called EXCEPT
                                !.error = WebhookRegistrationError(topic, r.shop)]
            IN IF r.idx = Len(r.topics)
               THEN [kept EXCEPT !.pc = "done"]
               ELSE [kept EXCEPT !.idx = @ + 1, !.attemptNum = 0]
       ELSE [called EXCEPT !.attemptNum = @ + 1]

\* one attempt of the retry in registerWebhook for the topic at r.idx, and what
\* follows it without another call: the next topic of the loop, the return of
\* registerWebhooks, the next attempt after the delay, or, with the attempts
\* used up, the catch that throws WebhookRegistrationError out of the loop
registerWebhookStep(r, result) ==
    LET topic == r.topics[r.idx]
        called == RegisterCalled(r, result)
    IN IF result = "success"
       THEN IF r.idx = Len(r.topics)
            THEN [called EXCEPT !.registered = @ \cup {<<r.shop, topic>>}, !.pc = "done"]
            ELSE [called EXCEPT !.registered = @ \cup {<<r.shop, topic>>}, !.idx = @ + 1,
                                !.attemptNum = 0]
       ELSE IF r.attemptNum + 1 >= RegisterMaxAttempts
            THEN [called EXCEPT !.pc = "done",
                                !.error = WebhookRegistrationError(topic, r.shop)]
            ELSE [called EXCEPT !.attemptNum = @ + 1]

\* unregisterWebhooks as it would be with the deleteAll call retried
unregisterStep_Retry(r, ok) ==
    LET called == UnregisterCalled(r, ok)
    IN IF ok THEN [called EXCEPT !.registered = {p \in @ : p[1] # r.shop},
                                 !.pc = "done"]
       ELSE IF Len(r.calls) + 1 >= RegisterMaxAttempts
            THEN [called EXCEPT !.pc = "done",
                                !.error = WebhookUnregistrationError(r.shop)]
            ELSE called

\* lines 84-98: the deleteAll call for the session's shop returns (ok: the
\* shop's subscriptions are gone) or throws
unregisterStep(r, ok) ==
    LET called == UnregisterCalled(r, ok)
    IN IF ok THEN [called EXCEPT !.registered = {p \in @ : p[1] # r.shop},
                                 !.pc = "done"]
       ELSE [called EXCEPT !.pc = "done", !.error = WebhookUnregistrationError(r.shop)]

-----------------------------------------------------------------------------
(* CsrfGuard.canActivate: the class of src/guard/role.guard.ts and the class *)
(* of src/guard/csrf-.guard.ts.  A header text is kept as the sequence of    *)
(* its parts between dots; a part is <<"text", t>> or the hex digest         *)
(* <<"hmac-hex", secret, message>> of the message text under the secret      *)
(* (two digests are equal exactly when secret and message are).              *)

\* request.headers['x-csrf-token']: undefined, a string[] or a string
NoHeader == [type |-> "undefined", parts |-> <<>>]
StringHeader(parts) == [type |-> "string", parts |-> parts]

Text(t) == <<"text", t>>

\* the length of a part in bytes (a SHA-256 digest in hex has 64)
PartLen(part) ==
    IF part[1] = "hmac-hex" THEN 64
    ELSE CASE part[2] = "" -> 0
           [] part[2] = "deadbeef" -> 8
           [] part[2] = "valid-token" -> 11
           [] OTHER -> 13

\* !csrfToken || typeof csrfToken !== 'string'
MissingCsrfToken(header) ==
    header.type = "undefined"
    \/ (header.type = "string" /\ header.parts = <<Text("")>>)
    \/ header.type # "string"

\* generateTokenHash(timestamp, request, secret): the HMAC of the text
\* `${timestamp}${sessionId}${request.ip}`
generateTokenHash(timestamp, sessionId, ip, secret) ==
    <<"hmac-hex", secret, timestamp \o sessionId \o ip>>

\* generateToken(request) at the time `timestamp`
generateToken(timestamp, sessionId, ip, secret) ==
    StringHeader(<<Text(timestamp), generateTokenHash(timestamp, sessionId, ip, secret)>>)

GuardReturns(v) == [returns |-> v, throws |-> "", message |-> ""]
GuardThrows(kind, message) == [returns |-> "", throws |-> kind, message |-> message]
NoOutcome == [returns |-> "", throws |-> "", message |-> ""]

\* validateCsrfToken(token, request) of role.guard.ts; config is "none" for a
\* guard constructed without ConfigService, "unset" when CSRF_SECRET is not
\* configured, else the secret
validateCsrfToken(header, sessionId, ip, config) ==
    IF config = "none"
    THEN GuardThrows("TypeError", "Cannot read properties of undefined (reading 'get')")
    ELSE IF config = "unset"
    THEN GuardThrows("Error", "CSRF_SECRET is not configured")
    ELSE LET parts == header.parts IN
         IF Len(parts) < 2 \/ parts[1] = Text("") \/ parts[2] = Text("")
         THEN GuardReturns("false")
         ELSE LET expectedHash == generateTokenHash(parts[1][2], sessionId, ip, config) IN
              IF PartLen(parts[2]) # PartLen(expectedHash)
              THEN GuardThrows("RangeError", "Input buffers must have the same byte length")
              ELSE GuardReturns(IF parts[2] = expectedHash THEN "true" ELSE "false")

\* CsrfGuard.canActivate of role.guard.ts
canActivate_role(header, sessionId, ip, config) ==
    IF MissingCsrfToken(header)
    THEN GuardThrows("UnauthorizedException", "Missing CSRF token")
    ELSE LET isValid == validateCsrfToken(header, sessionId, ip, config) IN
         IF isValid.throws # "" THEN isValid
         ELSE IF isValid.returns # "true"
         THEN GuardThrows("UnauthorizedException", "Invalid CSRF token")
         ELSE GuardReturns("true")

\* CsrfGuard.canActivate of csrf-.guard.ts
canActivate_csrf(header) ==
    IF MissingCsrfToken(header)
    THEN GuardThrows("UnauthorizedException", "Missing CSRF token")
    ELSE GuardReturns("true")

\* no canActivate call is being looked at
NoGuardCall ==
    [impl |-> "", config |-> "none", header |-> NoHeader, sessionId |-> "",
     ip |-> "", outcome |-> NoOutcome]

-----------------------------------------------------------------------------
(* State *)

Slots == 1..MaxInflight

StartMs == 10 * TickMs

\* the keys of the dedup store: cacheKey = `${webhookId}`
CacheKeys == {"abc-1", "abc-2"}

\* pc: where the invocation stands; ran: the checks and calls it has made, in
\* order; err: the exception it ended with; slack: its notifyFailure call
IdleSlot ==
    [pc |-> "idle", req |-> NoReq, resp |-> NoResp, ran |-> <<>>,
     err |-> NoError, slack |-> "none"]

InitIngress ==
    /\ now = StartMs
    /\ slot = [r \in Slots |-> IdleSlot]
    /\ store = [k \in CacheKeys |-> <<>>]
    /\ usedNonces = {}
    /\ jobs = <<>>
    /\ nonceLog = <<>>

InitVerifier ==
    /\ vBody = <<>>
    /\ vSig = NoSignature
    /\ vOutcome = "unchecked"

\* no circuit breaker call, service operation or guard call has been made
InitService ==
    /\ alerts = {}
    /\ breaker = InitBreaker
    /\ reg = IdleReg
    /\ guard = NoGuardCall
    /\ taskQueue = InitTaskQueue
    /\ webhookHandlers = BuiltinHandlers

Init == InitIngress /\ InitVerifier /\ InitService

IngressVars == <<now, slot, store, usedNonces, jobs, nonceLog>>
VerifierVars == <<vBody, vSig, vOutcome>>
ServiceVars == <<alerts, breaker, reg, guard, taskQueue, webhookHandlers>>

\* invocations that may still add a job
Pending == Cardinality({r \in Slots : slot[r].pc \in {"get", "lookup", "add"}})

-----------------------------------------------------------------------------
(* handleWebhook, cut at its awaits *)

\* the invocation ends with the response resp
Finish(r, resp, ran) ==
    slot' = [slot EXCEPT ![r].pc = "done", ![r].resp = resp,
                         ![r].ran = slot[r].ran \o ran]

\* lines 335-338: the invocation enters the catch block with exception e and
\* waits for slack.send (notifyFailure)
Fail(r, e, ran) ==
    slot' = [slot EXCEPT ![r].pc = "slack",
                         ![r].ran = slot[r].ran \o ran,
                         ![r].err = e]

\* lines 259-289: a request arrives and is given the first free slot;
\* everything up to the first await
Arrive(r, req) ==
    /\ slot[r].pc = "idle"
    /\ \A q \in Slots : q < r => slot[q].pc # "idle"
    /\ Len(jobs) + Pending < MaxJobs
    /\ LET missing == extractHeaders(req)
           c == SecurityChecks(req, now, usedNonces)
       IN IF missing # <<>>
          THEN /\ slot' = [slot EXCEPT ![r] =
                             [pc |-> "done", req |-> req,
                              resp |-> Thrown(MissingHeadersError(missing)),
                              ran |-> <<"headers">>,
                              err |-> MissingHeadersError(missing), slack |-> "none"]]
               /\ UNCHANGED <<usedNonces, nonceLog>>
          ELSE IF c.error # NoError
          THEN /\ slot' = [slot EXCEPT ![r] =
                             [pc |-> "slack", req |-> req, resp |-> NoResp,
                              ran |-> <<"headers">> \o c.ran, err |-> c.error,
                              slack |-> "none"]]
               /\ usedNonces' = c.nonces
               /\ UNCHANGED nonceLog
          ELSE /\ slot' = [slot EXCEPT ![r] =
                             [pc |-> "get", req |-> req, resp |-> NoResp,
                              ran |-> <<"headers">> \o c.ran, err |-> NoError,
                              slack |-> "none"]]
               /\ usedNonces' = c.nonces
               /\ nonceLog' = IF c.recorded THEN Append(nonceLog, <<req.nonce, now>>)
                              ELSE nonceLog
    /\ UNCHANGED <<now, store, jobs, VerifierVars, ServiceVars>>

\* lines 289-296 with getCachedData: the Redis GET answers; a text that is
\* not empty is parsed, and only a truthy value ends the invocation; on a
\* miss getCachedData awaits fetchData() (line 447) and on a miss or a falsy
\* value its result reaches handleWebhook through the await of line 289, so
\* the handler lookup is a later step
StoreGet(r, ok) ==
    /\ slot[r].pc = "get"
    /\ LET cached == RedisGet(store, slot[r].req.webhookId, now)
           hit == cached # <<>> /\ cached[1] # ""
       IN
       IF ~ok
       THEN Fail(r, Exception("Error", "redis.get failed"), <<"dedup">>)
       ELSE IF hit /\ JsonParse(cached[1]) = "throws"
       THEN Fail(r, Exception("SyntaxError", "Unexpected token in JSON"), <<"dedup">>)
       ELSE IF hit /\ JsonParse(cached[1]) = "truthy"
       THEN Finish(r, Returned("Webhook already processed"), <<"dedup">>)
       ELSE slot' = [slot EXCEPT ![r].pc = "lookup",
                                 ![r].ran = slot[r].ran \o <<"dedup">>]
    /\ UNCHANGED <<now, store, usedNonces, jobs, nonceLog, VerifierVars, ServiceVars>>

\* lines 298-306: handleWebhook resumes with a value of getCachedData that is
\* not truthy and looks the topic up in this.webhookHandlers as the list is
\* then; without a handler it returns
HandlerLookup(r) ==
    /\ slot[r].pc = "lookup"
    /\ IF Len(MatchingHandlers(slot[r].req.topic)) = 0
       THEN Finish(r, ReturnedNothing, <<"lookup">>)
       ELSE slot' = [slot EXCEPT ![r].pc = "add",
                                 ![r].ran = slot[r].ran \o <<"lookup">>]
    /\ UNCHANGED <<now, store, usedNonces, jobs, nonceLog, VerifierVars, ServiceVars>>

\* the enqueue as it would be if a failure of queue.add were swallowed
QueueAdd_IgnoreFailure(r, ok) ==
    /\ slot[r].pc = "add"
    /\ slot' = [slot EXCEPT ![r].pc = "set", ![r].ran = slot[r].ran \o <<"enqueue">>]
    /\ jobs' = IF ok
               THEN BullAdd(jobs, "webhook-queue", "processWebhook",
                            [topic |-> slot[r].req.topic,
                             domain |-> slot[r].req.domain,
                             webhookId |-> slot[r].req.webhookId,
                             handler |-> MatchingHandlers(slot[r].req.topic)[1].topic],
                            NoOpts)
               ELSE jobs
    /\ UNCHANGED <<now, store, usedNonces, nonceLog, VerifierVars, ServiceVars>>

\* lines 308-315: webhookQueue.add('processWebhook', {...}), no job options
QueueAdd(r, ok) ==
    /\ slot[r].pc = "add"
    /\ IF ok
       THEN /\ jobs' = BullAdd(jobs, "webhook-queue", "processWebhook",
                               [topic |-> slot[r].req.topic,
                                domain |-> slot[r].req.domain,
                                webhookId |-> slot[r].req.webhookId,
                                handler |-> MatchingHandlers(slot[r].req.topic)[1].topic],
                               NoOpts)
            /\ slot' = [slot EXCEPT ![r].pc = "set",
                                    ![r].ran = slot[r].ran \o <<"enqueue">>]
       ELSE /\ Fail(r, Exception("Error", "queue.add failed"), <<"enqueue">>)
            /\ UNCHANGED jobs
    /\ UNCHANGED <<now, store, usedNonces, nonceLog, VerifierVars, ServiceVars>>

\* lines 317-332: redis.set(cacheKey, 'processed', 'EX', 3600) answers; the
\* invocation goes on to logToCloudWatch and waits for cloudWatchLogsClient.send
StoreSet(r, ok) ==
    /\ slot[r].pc = "set"
    /\ IF ok
       THEN /\ store' = RedisSetEx(store, slot[r].req.webhookId, "processed",
                                   DedupTtlSec, now)
            /\ slot' = [slot EXCEPT ![r].pc = "log",
                                    ![r].ran = slot[r].ran \o <<"mark">>]
       ELSE /\ Fail(r, Exception("Error", "redis.set failed"), <<"mark">>)
            /\ UNCHANGED store
    /\ UNCHANGED <<now, usedNonces, jobs, nonceLog, VerifierVars, ServiceVars>>

\* line 338: slack.send answers in the catch block; when it rejects, the
\* rejection leaves handleWebhook in place of the caught exception, else
\* logToCloudWatch follows
SlackAnswer(r, ok) ==
    /\ slot[r].pc = "slack"
    /\ slot' = IF ok
               THEN [slot EXCEPT ![r].pc = "log", ![r].slack = "sent"]
               ELSE [slot EXCEPT ![r].pc = "done", ![r].slack = "failed",
                                 ![r].resp = CatchResponse(slot[r].err, FALSE)]
    /\ UNCHANGED <<now, store, usedNonces, jobs, nonceLog, VerifierVars, ServiceVars>>

\* lines 332-334 and 339-340: cloudWatchLogsClient.send answers or rejects
\* (logToCloudWatch swallows the rejection); the response follows, from
\* handleError in the catch block
CloudWatchAnswer(r) ==
    /\ slot[r].pc = "log"
    /\ IF slot[r].err = NoError
       THEN Finish(r, Returned("Webhook added to processing queue"), <<>>)
       ELSE Finish(r, CatchResponse(slot[r].err, TRUE), <<>>)
    /\ UNCHANGED <<now, store, usedNonces, jobs, nonceLog, VerifierVars, ServiceVars>>

\* the response has been sent; the slot takes the next request
Release(r) ==
    /\ slot[r].pc = "done"
    /\ slot' = [slot EXCEPT ![r] = IdleSlot]
    /\ UNCHANGED <<now, store, usedNonces, jobs, nonceLog, VerifierVars, ServiceVars>>

\* registerWebhookHandler(handler): this.webhookHandlers.push(handler)
registerWebhookHandler(handler) ==
    /\ Len(webhookHandlers) < MaxHandlers
    /\ webhookHandlers' = Append(webhookHandlers, handler)
    /\ UNCHANGED <<IngressVars, VerifierVars, alerts, breaker, reg, guard, taskQueue>>

\* registerWebhookHandlers(): registerWebhookHandler for 'orders/create', then
\* for 'products/update' (no await between the two)
registerWebhookHandlers ==
    /\ Len(webhookHandlers) + Len(BuiltinHandlers) <= MaxHandlers
    /\ webhookHandlers' = webhookHandlers \o BuiltinHandlers
    /\ UNCHANGED <<IngressVars, VerifierVars, alerts, breaker, reg, guard, taskQueue>>

\* time passes; Redis expires its keys
Tick ==
    /\ now < StartMs + MaxTicks * TickMs
    /\ now' = now + TickMs
    /\ store' = RedisExpire(store, now')
    /\ UNCHANGED <<slot, usedNonces, jobs, nonceLog, VerifierVars, ServiceVars>>

-----------------------------------------------------------------------------
(* Inputs *)

Ips == {"23.227.38.32", "10.0.0.1"}
Nonces == {"n1", ""}

\* x-shopify-timestamp: absent, or the current time shifted
Timestamps(t) == {<<>>, <<t>>, <<t - ReplayWindowMs - 1>>, <<t + ReplayWindowMs + 1>>}

\* body and x-shopify-hmac-sha256: a text body with the sender's signature of
\* the exact bytes, without signature, or signed under another key; a body that
\* is not UTF-8 with the sender's signature of the exact bytes
SignedBodies ==
    {<<<<65>>, SenderSignature(SHOPIFY_WEBHOOK_SECRET, <<65>>)>>,
     <<<<65>>, NoSignature>>,
     <<<<65>>, SenderSignature("other", <<65>>)>>,
     <<<<255>>, SenderSignature(SHOPIFY_WEBHOOK_SECRET, <<255>>)>>}

MkReq(tp, dm, id, sb, nc, ts, tk, ip) ==
    [topic |-> tp, domain |-> dm, webhookId |-> id, hmac |-> sb[2], nonce |-> nc,
     timestamp |-> ts, token |-> tk, ip |-> ip, body |-> sb[1]]

\* a delivery of the platform for a registered topic: it carries what every
\* check before the nonce check asks for
Delivery(id, nc, ts) ==
    MkReq("orders/create", "shop.myshopify.com", id,
          <<<<65>>, SenderSignature(SHOPIFY_WEBHOOK_SECRET, <<65>>)>>,
          nc, ts, SHOPIFY_AUTH_TOKEN, "23.227.38.32")

-----------------------------------------------------------------------------
(* The Bull queue: addTask and the worker *)

\* BullQueueService.addTask(data, jobOptions) on the queue
\* process.env.BULL_QUEUE_NAME || 'default'
addTask(data, jobOptions) ==
    /\ Len(jobs) + Pending < MaxJobs
    /\ jobs' = BullAdd(jobs, TaskQueueName, "processTask", data,
                       addTaskOptions(jobOptions))
    /\ UNCHANGED <<now, slot, store, usedNonces, nonceLog, VerifierVars, ServiceVars>>

\* a worker of the job's queue takes the waiting job j (one active job per
\* queue); no job is taken from the task queue while it is paused
WorkerTake(j) ==
    /\ j \in 1..Len(jobs)
    /\ jobs[j].state = "waiting"
    /\ jobs[j].queue = TaskQueueName => ~taskQueue.paused
    /\ \A k \in 1..Len(jobs) :
          jobs[k].queue = jobs[j].queue => jobs[k].state # "active"
    /\ jobs' = [jobs EXCEPT ![j].state = "active"]
    /\ UNCHANGED <<now, slot, store, usedNonces, nonceLog, VerifierVars, ServiceVars>>

\* the handler of the active job j of a queue other than 'my-queue' returns
\* (ok) or throws; the job stays active until Bull has moved it
WorkerFinish(j, ok) ==
    /\ j \in 1..Len(jobs)
    /\ jobs[j].queue # "my-queue"
    /\ jobs[j].state = "active"
    /\ jobs[j].handled = ""
    /\ jobs' = [jobs EXCEPT ![j].handled = IF ok THEN "returned" ELSE "threw"]
    /\ UNCHANGED <<now, slot, store, usedNonces, nonceLog, VerifierVars, ServiceVars>>

\* the backoff delay of job j has passed
Promote(j) ==
    /\ j \in 1..Len(jobs)
    /\ jobs[j].state = "delayed"
    /\ now >= jobs[j].runAt
    /\ jobs' = [jobs EXCEPT ![j].state = "waiting"]
    /\ UNCHANGED <<now, slot, store, usedNonces, nonceLog, VerifierVars, ServiceVars>>

\* a producer adds a job for one of QueueProcessor's handlers to 'my-queue'
\* (no job options: the queue's defaultJobOptions apply)
addMyQueueJob(name, data) ==
    /\ Len(jobs) + Pending < MaxJobs
    /\ jobs' = BullAdd(jobs, "my-queue", name, data, NoOpts)
    /\ UNCHANGED <<now, slot, store, usedNonces, nonceLog, VerifierVars, ServiceVars>>

\* QueueProcessor.handleError(job, error): whether it calls triggerAlert; it
\* throws the error or returns, and the caller's catch throws it in both cases
handleErrorAlerts(error) ==
    IF error = "TemporaryErrorException" THEN FALSE
    ELSE IF error = "PermanentErrorException" THEN TRUE
    ELSE FALSE

\* processStringJob / processNumberJob on the active job j of 'my-queue': the
\* body returns (thrown = "") or throws; the catch calls handleError and
\* re-throws; the job stays active until Bull has moved it
processJob(j, thrown) ==
    /\ j \in 1..Len(jobs)
    /\ jobs[j].queue = "my-queue"
    /\ jobs[j].name \in {"processString", "processNumber"}
    /\ jobs[j].state = "active"
    /\ jobs[j].handled = ""
    /\ jobs' = [jobs EXCEPT ![j].handled = IF thrown = "" THEN "returned" ELSE "threw"]
    /\ alerts' = IF thrown # "" /\ handleErrorAlerts(thrown)
                 THEN alerts \cup {<<j, jobs[j].attemptsMade + 1>>}
                 ELSE alerts
    /\ UNCHANGED <<now, slot, store, usedNonces, nonceLog, VerifierVars,
                   breaker, reg, guard, taskQueue, webhookHandlers>>

\* Bull moves the job whose handler has ended: moveToCompleted, or
\* moveToFailed (retry or final failure)
JobSettled(j) ==
    /\ j \in 1..Len(jobs)
    /\ jobs[j].state = "active"
    /\ jobs[j].handled # ""
    /\ LET job == [jobs[j] EXCEPT !.handled = ""] IN
       jobs' = [jobs EXCEPT ![j] = IF jobs[j].handled = "returned"
                                   THEN JobCompleted(job, now)
                                   ELSE JobAfterFailure(job, now)]
    /\ UNCHANGED <<now, slot, store, usedNonces, nonceLog, VerifierVars, ServiceVars>>

\* getJob(jobId) answers a call of removeJob, retryJob or updateJob: a job
\* that is found makes the call send its job.remove(), job.retry() or
\* job.update(data) to the queue and wait for the answer, else the call warns
\* and returns
getJobAnswer(op, id, data) ==
    /\ taskQueue.call = NoJobCall
    /\ taskQueue' = [taskQueue EXCEPT
                       !.call = IF HasJob(jobs, TaskQueueName, id)
                                THEN [op |-> op, id |-> id, data |-> data]
                                ELSE NoJobCall,
                       !.thrown = ""]
    /\ UNCHANGED <<IngressVars, VerifierVars, alerts, breaker, reg, guard,
                   webhookHandlers>>

\* removeJob(jobId) up to its second await: getJob, then job.remove() is sent
removeJob(id) == getJobAnswer("remove", id, NoJobCall.data)

\* retryJob(jobId) up to its second await: getJob, then job.retry() is sent
retryJob(id) ==
    /\ HasJob(jobs, TaskQueueName, id) => jobs[id].retried < MaxRetries
    /\ getJobAnswer("retry", id, NoJobCall.data)

\* updateJob(jobId, data) up to its second await: getJob, then
\* job.update(data) is sent
updateJob(id, data) == getJobAnswer("update", id, data)

\* the queue answers job.remove(), job.retry() or job.update(data) of the
\* waiting call, which returns, or throws what the queue rejected with
\* (retryJob's catch logs and re-throws)
JobCallAnswer ==
    /\ taskQueue.call # NoJobCall
    /\ LET c == taskQueue.call
           r == CASE c.op = "remove" -> BullRemove(jobs, c.id)
                  [] c.op = "retry" -> BullRetry(jobs, c.id)
                  [] c.op = "update" -> BullUpdate(jobs, c.id, c.data)
       IN /\ jobs' = r.jobs
          /\ taskQueue' = [taskQueue EXCEPT !.call = NoJobCall, !.thrown = r.thrown]
    /\ UNCHANGED <<now, slot, store, usedNonces, nonceLog, VerifierVars,
                   alerts, breaker, reg, guard, webhookHandlers>>

\* pauseQueue(): taskQueue.pause()
pauseQueue ==
    /\ taskQueue' = [taskQueue EXCEPT !.paused = TRUE, !.thrown = ""]
    /\ UNCHANGED <<IngressVars, VerifierVars, alerts, breaker, reg, guard,
          webhookHandlers>>

\* resumeQueue(): taskQueue.resume()
resumeQueue ==
    /\ taskQueue' = [taskQueue EXCEPT !.paused = FALSE, !.thrown = ""]
    /\ UNCHANGED <<IngressVars, VerifierVars, alerts, breaker, reg, guard,
          webhookHandlers>>

\* cleanOldJobs(gracePeriod) up to its second await: clean 'completed' is
\* answered and clean 'failed' is sent
cleanOldJobs(gracePeriod) ==
    /\ taskQueue.cleaning = 0
    /\ jobs' = BullClean(jobs, TaskQueueName, gracePeriod, "completed", now)
    /\ taskQueue' = [taskQueue EXCEPT !.cleaning = gracePeriod, !.thrown = ""]
    /\ UNCHANGED <<now, slot, store, usedNonces, nonceLog, VerifierVars,
                   alerts, breaker, reg, guard, webhookHandlers>>

\* the queue answers clean 'failed'; cleanOldJobs returns
cleanFailedAnswer ==
    /\ taskQueue.cleaning # 0
    /\ jobs' = BullClean(jobs, TaskQueueName, taskQueue.cleaning, "failed", now)
    /\ taskQueue' = [taskQueue EXCEPT !.cleaning = 0]
    /\ UNCHANGED <<now, slot, store, usedNonces, nonceLog, VerifierVars,
                   alerts, breaker, reg, guard, webhookHandlers>>

\* the data callers of addTask pass
TaskDatas == {[type |-> "sync", payload |-> "p"]}

-----------------------------------------------------------------------------
(* Calls through the circuit breaker *)

\* breaker.fire as it would be if a refused call ran the action all the same
BreakerFire_RunsRefused(topic) ==
    /\ breaker.fired < MaxCalls
    /\ LET counted == [breaker EXCEPT !.fired = @ + 1, !.window[1].fires = @ + 1] IN
       breaker' =
         IF counted.state # "closed" /\ ~counted.pendingClose
         THEN [counted EXCEPT !.rejected = @ + 1, !.invoked = @ + 1,
                              !.rejectedTopics = @ \cup {topic}]
         ELSE [counted EXCEPT !.pendingClose = FALSE, !.invoked = @ + 1,
                              !.inflight = Append(@, [age |-> 0, topic |-> topic])]
    /\ UNCHANGED <<IngressVars, VerifierVars, alerts, reg, guard, taskQueue,
                   webhookHandlers>>

\* breaker.fire(webhookEntry, ...) for the handler of a topic: the call is
\* counted, then refused when the circuit is not closed and no trial is due,
\* else the action is called
BreakerFire(topic) ==
    /\ breaker.fired < MaxCalls
    /\ LET counted == [breaker EXCEPT !.fired = @ + 1, !.window[1].fires = @ + 1] IN
       breaker' =
         IF counted.state # "closed" /\ ~counted.pendingClose
         THEN [counted EXCEPT !.rejected = @ + 1,
                              !.rejectedTopics = @ \cup {topic}]
         ELSE [counted EXCEPT !.pendingClose = FALSE, !.invoked = @ + 1,
                              !.inflight = Append(@, [age |-> 0, topic |-> topic])]
    /\ UNCHANGED <<IngressVars, VerifierVars, alerts, reg, guard, taskQueue,
          webhookHandlers>>

\* the action of the i-th call in flight returns (ok) or throws
BreakerSettle(i, ok) ==
    /\ i \in 1..Len(breaker.inflight)
    /\ LET settled == [breaker EXCEPT !.inflight = RemoveAt(@, i)]
           thrown == [settled EXCEPT
                        !.failedTopics = @ \cup {breaker.inflight[i].topic}]
       IN breaker' = IF ok THEN BreakerSucceed(settled) ELSE BreakerFail(thrown, 1)
    /\ UNCHANGED <<IngressVars, VerifierVars, alerts, reg, guard, taskQueue,
          webhookHandlers>>

\* one bucket interval passes: the window rotates, the calls in flight for
\* `timeout` fail with ETIMEDOUT, the reset timer advances and at
\* resetTimeout half-opens the circuit
BreakerTick ==
    LET rotated == [breaker EXCEPT
                      !.window = <<EmptyBucket>> \o SubSeq(@, 1, RollingCountBuckets - 1),
                      !.inflight = [i \in 1..Len(@) |-> [@[i] EXCEPT !.age = @ + 1]]]
        late == SelectSeq(rotated.inflight, LAMBDA c : c.age >= TimeoutTicks)
        kept == [rotated EXCEPT
                   !.inflight = SelectSeq(@, LAMBDA c : c.age < TimeoutTicks),
                   !.failedTopics = @ \cup {late[i].topic : i \in 1..Len(late)}]
        failed == BreakerFail(kept, Len(late))
    IN /\ breaker' =
            IF breaker.timer >= 0 /\ failed.timer >= 0
            THEN IF breaker.timer + 1 >= ResetTicks
                 THEN [failed EXCEPT !.state = "halfOpen", !.pendingClose = TRUE,
                                     !.timer = -1]
                 ELSE [failed EXCEPT !.timer = breaker.timer + 1]
            ELSE failed
       /\ breaker' # breaker
       /\ UNCHANGED <<IngressVars, VerifierVars, alerts, reg, guard, taskQueue,
          webhookHandlers>>

-----------------------------------------------------------------------------
(* The operations of ShopifyWebhooksService *)

Shops == {"a.myshopify.com", "b.myshopify.com"}

\* the texts of SHOPIFY_WEBHOOK_TOPICS that list these entries
RECURSIVE JoinTopics(_)
JoinTopics(list) ==
    LET first == IF Head(list) = "" THEN <<>> ELSE <<Head(list)>> IN
    IF Len(list) = 1 THEN first ELSE first \o <<",">> \o JoinTopics(Tail(list))

\* SHOPIFY_WEBHOOK_TOPICS: unset, or a text listing up to MaxTopics entries
ConfigValues ==
    {[set |-> FALSE, text |-> <<>>]}
    \cup {[set |-> TRUE, text |-> JoinTopics(l)] :
            l \in UNION {[1..n -> {"orders/create", "products/update", ""}] :
                           n \in 1..MaxTopics}}

\* registerWebhooks(session) after onModuleInit under the configuration: the
\* for loop takes the first topic
registerWebhooks(shop, config) ==
    /\ reg.pc = "idle"
    /\ LET topics == onModuleInit(config) IN
       reg' = IF Len(topics) = 0
              THEN [reg EXCEPT !.op = "register", !.pc = "done", !.shop = shop,
                               !.config = config, !.topics = topics]
              ELSE [reg EXCEPT !.op = "register", !.pc = "calling", !.shop = shop,
                               !.config = config, !.topics = topics, !.idx = 1]
    /\ UNCHANGED <<IngressVars, VerifierVars, alerts, breaker, guard, taskQueue,
          webhookHandlers>>

\* the pending shopifyApi.webhooks.register call answers
RegisterAttempt(result) ==
    /\ reg.op = "register" /\ reg.pc = "calling"
    /\ reg' = registerWebhookStep(reg, result)
    /\ UNCHANGED <<IngressVars, VerifierVars, alerts, breaker, guard, taskQueue,
          webhookHandlers>>

\* unregisterWebhooks(session) begins
unregisterWebhooks(shop) ==
    /\ reg.pc = "idle"
    /\ reg' = [reg EXCEPT !.op = "unregister", !.pc = "calling", !.shop = shop]
    /\ UNCHANGED <<IngressVars, VerifierVars, alerts, breaker, guard, taskQueue,
          webhookHandlers>>

\* the pending shopifyApi.webhooks.deleteAll call answers
UnregisterCall(ok) ==
    /\ reg.op = "unregister" /\ reg.pc = "calling"
    /\ reg' = unregisterStep(reg, ok)
    /\ UNCHANGED <<IngressVars, VerifierVars, alerts, breaker, guard, taskQueue,
          webhookHandlers>>

\* the caller has the result of the operation; the subscriptions stay
ServiceReturn ==
    /\ reg.pc = "done"
    /\ reg' = [IdleReg EXCEPT !.registered = reg.registered]
    /\ UNCHANGED <<IngressVars, VerifierVars, alerts, breaker, guard, taskQueue,
          webhookHandlers>>

-----------------------------------------------------------------------------
(* CsrfGuard.canActivate on a request *)

SessionIds == {"", "s1"}

\* the x-csrf-token header: absent, repeated, empty, the test's 'valid-token',
\* a token generateToken made for some request, under the secret or another
\* one, a token with a short hash, tokens with an empty part, and a token
\* made for session 's1' whose timestamp part is sent with 's1' appended
CsrfHeaders ==
    {NoHeader, [type |-> "array", parts |-> <<Text("valid-token")>>], StringHeader(<<Text("")>>),
     StringHeader(<<Text("valid-token")>>),
     StringHeader(<<Text("1700000000000"), Text("deadbeef")>>),
     StringHeader(<<Text("1700000000000"), Text("")>>),
     StringHeader(<<Text(""), Text("deadbeef")>>)}
    \cup {generateToken("1700000000000", sid, ip, secret) :
            sid \in SessionIds, ip \in Ips, secret \in {"csrf-secret", "other"}}
    \cup {StringHeader(<<Text("1700000000000s1"),
                         generateTokenHash("1700000000000", "s1", ip, "csrf-secret")>>) :
            ip \in Ips}

InitGuard ==
    /\ InitIngress
    /\ InitVerifier
    /\ alerts = {}
    /\ breaker = InitBreaker
    /\ reg = IdleReg
    /\ taskQueue = InitTaskQueue
    /\ webhookHandlers = BuiltinHandlers
    /\ guard \in [impl : {"role.guard", "csrf-.guard"},
                  config : {"none", "unset", "csrf-secret"}, header : CsrfHeaders,
                  sessionId : SessionIds, ip : Ips, outcome : {NoOutcome}]

\* canActivate(context) on the request
canActivate ==
    /\ guard.impl # ""
    /\ guard.outcome = NoOutcome
    /\ guard' = [guard EXCEPT !.outcome =
                   IF guard.impl = "role.guard"
                   THEN canActivate_role(guard.header, guard.sessionId, guard.ip,
                                         guard.config)
                   ELSE canActivate_csrf(guard.header)]
    /\ UNCHANGED <<IngressVars, VerifierVars, alerts, breaker, reg, taskQueue,
          webhookHandlers>>

-----------------------------------------------------------------------------
(* The signature check in isolation *)

Bodies == UNION {[1..n -> {65, 169, 195, 254, 255}] : n \in 0..MaxBodyLen}

\* the byte sequences a signature header may be the digest of
SignedMessages == Bodies \cup {Utf8Encode(Utf8Decode(b)) : b \in Bodies}

\* one byte of the header's text altered
AlterByte(sig) == <<sig[1], sig[2], sig[3], 1>>

SignatureHeaders ==
    {NoSignature}
    \cup {SenderSignature(k, m) : k \in {SHOPIFY_WEBHOOK_SECRET, "other"}, m \in SignedMessages}
    \cup {AlterByte(SenderSignature(SHOPIFY_WEBHOOK_SECRET, m)) : m \in SignedMessages}

InitSig ==
    /\ InitIngress
    /\ InitService
    /\ vBody \in Bodies
    /\ vSig \in SignatureHeaders
    /\ vOutcome = "unchecked"

\* lines 264 and 285: rawBodyStr = rawBody.toString();
\* validateWebhookSignature(rawBodyStr, headers)
VerifySignature ==
    /\ vOutcome = "unchecked"
    /\ vOutcome' = IF validateWebhookSignature(Utf8Decode(vBody), vSig)
                   THEN "accepted" ELSE "rejected"
    /\ UNCHANGED <<vBody, vSig, IngressVars, ServiceVars>>

-----------------------------------------------------------------------------
(* Specifications *)

\* one request at a time, every request shape
Next ==
    \/ \E tp \in {"orders/create", "PRODUCTS/CREATE", ""},
          dm \in {"shop.myshopify.com", ""}, id \in {"abc-1", ""}, sb \in SignedBodies,
          nc \in Nonces, ts \in Timestamps(now), tk \in {SHOPIFY_AUTH_TOKEN, ""},
          ip \in Ips :
            Arrive(1, MkReq(tp, dm, id, sb, nc, ts, tk, ip))
    \/ \E ok \in BOOLEAN : StoreGet(1, ok)
    \/ HandlerLookup(1)
    \/ \E ok \in BOOLEAN : QueueAdd(1, ok)
    \/ \E ok \in BOOLEAN : StoreSet(1, ok)
    \/ \E ok \in BOOLEAN : SlackAnswer(1, ok)
    \/ CloudWatchAnswer(1)
    \/ Release(1)
    \/ Tick

Spec == Init /\ [][Next]_vars

\* concurrent deliveries of the platform while Redis and the queue answer
NextConc ==
    \/ \E r \in Slots, nc \in Nonces : Arrive(r, Delivery("abc-1", nc, <<>>))
    \/ \E r \in Slots : StoreGet(r, TRUE)
    \/ \E r \in Slots : HandlerLookup(r)
    \/ \E r \in Slots : QueueAdd(r, TRUE)
    \/ \E r \in Slots : StoreSet(r, TRUE)
    \/ \E r \in Slots : SlackAnswer(r, TRUE)
    \/ \E r \in Slots : CloudWatchAnswer(r)
    \/ \E r \in Slots : Release(r)
    \/ Tick

SpecConc == Init /\ [][NextConc]_vars

\* deliveries of the platform and their redeliveries while Redis and the
\* queue may fail
NextRedeliver ==
    \/ \E r \in Slots, nc \in Nonces, ts \in {<<>>, <<now>>} :
            Arrive(r, Delivery("abc-1", nc, ts))
    \/ \E r \in Slots : StoreGet(r, TRUE)
    \/ \E r \in Slots : HandlerLookup(r)
    \/ \E r \in Slots, ok \in BOOLEAN : QueueAdd(r, ok)
    \/ \E r \in Slots, ok \in BOOLEAN : StoreSet(r, ok)
    \/ \E r \in Slots : SlackAnswer(r, TRUE)
    \/ \E r \in Slots : CloudWatchAnswer(r)
    \/ \E r \in Slots : Release(r)
    \/ Tick

SpecRedeliver == Init /\ [][NextRedeliver]_vars

\* handlers are registered while deliveries for topics with and without a
\* handler arrive; Redis and the queue answer
NextHandlers ==
    \/ registerWebhookHandler([topic |-> "PRODUCTS/CREATE"])
    \/ registerWebhookHandlers
    \/ \E tp \in {"orders/create", "PRODUCTS/CREATE"}, id \in CacheKeys :
            Arrive(1, [Delivery(id, "", <<>>) EXCEPT !.topic = tp])
    \/ StoreGet(1, TRUE)
    \/ HandlerLookup(1)
    \/ QueueAdd(1, TRUE)
    \/ StoreSet(1, TRUE)
    \/ \E ok \in BOOLEAN : SlackAnswer(1, ok)
    \/ CloudWatchAnswer(1)
    \/ Release(1)
    \/ Tick

SpecHandlers == Init /\ [][NextHandlers]_vars

\* the signature check on every body and header of the bounded sets
NextSig == VerifySignature

SpecSig == InitSig /\ [][NextSig]_vars

\* deliveries one at a time while Redis, the queue and Slack answer, addTask
\* with two attempts, and the queues' workers
NextQueue ==
    \/ \E id \in CacheKeys : Arrive(1, Delivery(id, "", <<>>))
    \/ StoreGet(1, TRUE)
    \/ HandlerLookup(1)
    \/ QueueAdd(1, TRUE)
    \/ StoreSet(1, TRUE)
    \/ SlackAnswer(1, TRUE)
    \/ CloudWatchAnswer(1)
    \/ Release(1)
    \/ Tick
    \/ \E d \in TaskDatas : addTask(d, [attempts |-> <<2>>, backoff |-> <<>>])
    \/ \E j \in 1..MaxJobs : WorkerTake(j)
    \/ \E j \in 1..MaxJobs, ok \in BOOLEAN : WorkerFinish(j, ok)
    \/ \E j \in 1..MaxJobs : JobSettled(j)
    \/ \E j \in 1..MaxJobs : Promote(j)

SpecQueue == Init /\ [][NextQueue]_vars

\* the jobs of 'my-queue' and QueueProcessor
NextProc ==
    \/ \E nm \in {"processString", "processNumber"} : addMyQueueJob(nm, 21)
    \/ \E j \in 1..MaxJobs : WorkerTake(j)
    \/ \E j \in 1..MaxJobs,
          thrown \in {"", "TemporaryErrorException", "PermanentErrorException", "Error"} :
            processJob(j, thrown)
    \/ \E j \in 1..MaxJobs : JobSettled(j)
    \/ \E j \in 1..MaxJobs : Promote(j)
    \/ Tick

SpecProc == Init /\ [][NextProc]_vars

\* calls through the circuit breaker for one handler while time passes
NextBreaker ==
    \/ BreakerFire("orders/create")
    \/ \E i \in 1..MaxCalls, ok \in BOOLEAN : BreakerSettle(i, ok)
    \/ BreakerTick

SpecBreaker == Init /\ [][NextBreaker]_vars

\* calls through the circuit breaker for the handlers of all topics
NextBreakerKeys ==
    \/ \E i \in 1..Len(webhookHandlers) : BreakerFire(webhookHandlers[i].topic)
    \/ \E i \in 1..MaxCalls, ok \in BOOLEAN : BreakerSettle(i, ok)
    \/ BreakerTick

SpecBreakerKeys == Init /\ [][NextBreakerKeys]_vars

\* the operations of ShopifyWebhooksService, one at a time
NextReg ==
    \/ \E shop \in Shops, config \in ConfigValues : registerWebhooks(shop, config)
    \/ \E result \in {"success", "failure", "throws"} : RegisterAttempt(result)
    \/ \E shop \in Shops : unregisterWebhooks(shop)
    \/ \E ok \in BOOLEAN : UnregisterCall(ok)
    \/ ServiceReturn

SpecReg == Init /\ [][NextReg]_vars

\* jobs under the default retry options whose handlers throw (the handlers
\* of QueueProcessor a PermanentErrorException), and one registration
NextRetry ==
    \/ \E d \in TaskDatas : addTask(d, NoOpts)
    \/ addMyQueueJob("processString", 21)
    \/ \E j \in 1..MaxJobs : WorkerTake(j)
    \/ \E j \in 1..MaxJobs : WorkerFinish(j, FALSE)
    \/ \E j \in 1..MaxJobs : processJob(j, "PermanentErrorException")
    \/ \E j \in 1..MaxJobs : JobSettled(j)
    \/ \E j \in 1..MaxJobs : Promote(j)
    \/ Tick
    \/ registerWebhooks("a.myshopify.com", [set |-> TRUE, text |-> <<"orders/create">>])
    \/ \E result \in {"success", "failure"} : RegisterAttempt(result)

SpecRetry == Init /\ [][NextRetry]_vars

\* the operations of BullQueueService on its queue and the queue's worker
\* (updateJob is called for the first job added)
NextJobs ==
    \/ Len(jobs) < MaxTaskJobs /\ \E d \in TaskDatas : addTask(d, NoOpts)
    \/ \E j \in 1..MaxJobs : WorkerTake(j)
    \/ \E j \in 1..MaxJobs, ok \in BOOLEAN : WorkerFinish(j, ok)
    \/ \E j \in 1..MaxJobs : JobSettled(j)
    \/ \E j \in 1..MaxJobs : Promote(j)
    \/ Tick
    \/ \E id \in 1..MaxJobs : removeJob(id)
    \/ \E id \in 1..MaxJobs : retryJob(id)
    \/ updateJob(1, [type |-> "sync", payload |-> "q"])
    \/ JobCallAnswer
    \/ pauseQueue
    \/ resumeQueue
    \/ cleanOldJobs(TickMs)
    \/ cleanFailedAnswer

SpecJobs == Init /\ [][NextJobs]_vars

\* canActivate of either CsrfGuard on every request of the bounded sets
NextGuard == canActivate

SpecGuard == InitGuard /\ [][NextGuard]_vars

-----------------------------------------------------------------------------
(* Claims *)

JobsFor(id) == {j \in 1..Len(jobs) : jobs[j].data.webhookId = id}

\* the invocation in slot r has passed every verification step and gone on to
\* the dedup check
Verified(r) == Len(slot[r].ran) >= 7 /\ slot[r].ran[7] = "dedup"

\* C1: deliveries carrying the same webhookId that are handled concurrently
\* (here: before any time has passed, so well inside the dedup TTL) lead to
\* exactly one enqueued job for that webhookId.
C1_OneJobPerWebhookId ==
    now = StartMs => \A id \in CacheKeys : Cardinality(JobsFor(id)) <= 1

\* C2: a redelivery whose webhookId has an unexpired entry in the dedup store
\* (Redis answering) is answered 200 success:true 'Webhook already processed'
\* at the dedup check, without entering the error path, and enqueues no job.
C2_RedeliveryAcknowledged ==
    [][\A r \in Slots :
         (/\ slot[r].pc = "get"
          /\ slot'[r].pc # "get"
          /\ RedisGet(store, slot[r].req.webhookId, now) # <<>>
          /\ slot'[r].err.message # "redis.get failed")
         => (/\ slot'[r].pc = "done"
             /\ slot'[r].resp = Returned("Webhook already processed")
             /\ jobs' = jobs)]_vars

\* a delivery with the required headers only: topic, shop domain, webhook id
\* and the sender's HMAC of the body, from an allowlisted IP, for a topic with a
\* registered handler
RequiredHeadersOnly(req) ==
    /\ req.topic # "" /\ req.domain # "" /\ req.webhookId # ""
    /\ req.hmac = SenderSignature(SHOPIFY_WEBHOOK_SECRET, req.body)
    /\ req.ip \in SHOPIFY_IPS
    /\ req.nonce = "" /\ req.timestamp = <<>> /\ req.token = ""
    /\ \E i \in 1..Len(webhookHandlers) : webhookHandlers[i].topic = req.topic

\* C3: a delivery that carries the required headers only, with a valid
\* signature, from an allowlisted IP and for a recognized topic, is answered
\* 200 success:true (Redis, the queue and the notification sink answering).
C3_RequiredHeadersSuffice ==
    \A r \in Slots :
        (/\ slot[r].pc = "done"
         /\ RequiredHeadersOnly(slot[r].req)
         /\ slot[r].err.kind # "Error"
         /\ slot[r].slack # "failed")
        => (slot[r].resp.status = 200 /\ slot[r].resp.success)

\* C4: the signature check accepts exactly when the header equals the
\* HMAC-SHA256 of the raw body bytes under the configured secret.
C4_AcceptsExactlyHmacOfRawBody ==
    vOutcome # "unchecked"
    => ((vOutcome = "accepted") <=> (vSig = SenderSignature(SHOPIFY_WEBHOOK_SECRET, vBody)))

\* C5: a nonce passes the nonce check at most once while its record is
\* unexpired: two requests that passed the check with the same nonce passed it
\* at least one replay window apart (so never two of a set of concurrent ones).
C5_NonceAcceptedOnce ==
    \A i, j \in 1..Len(nonceLog) :
        (i < j /\ nonceLog[i][1] = nonceLog[j][1])
        => nonceLog[j][2] >= nonceLog[i][2] + ReplayWindowMs

\* C5 witness: a nonce has passed the check once and a later request carrying
\* it was rejected as a replay while another invocation is still in flight.
C5_Witness ==
    /\ Len(nonceLog) = 1
    /\ \E r \in Slots :
          /\ slot[r].pc = "done"
          /\ slot[r].req.nonce = nonceLog[1][1]
          /\ slot[r].resp.status = 400
          /\ slot[r].resp.message = "Nonce has already been used"
    /\ \E q \in Slots : slot[q].pc \in {"get", "add", "set"} /\ slot[q].req.nonce = nonceLog[1][1]

Deviates(t, timestamp) ==
    timestamp # <<>>
    /\ (t - timestamp[1] > ReplayWindowMs \/ timestamp[1] - t > ReplayWindowMs)

\* C6: a request with nonce and timestamp headers whose timestamp is more than
\* the replay window away from the current time, in the past or in the future,
\* is rejected by the checks on arrival (it is answered at once or enters the
\* error path); its nonce is not recorded and no job is enqueued.
C6_TimestampOutsideWindowRejected ==
    [][\A r \in Slots :
         (/\ slot[r].pc = "idle"
          /\ slot'[r].pc # "idle"
          /\ slot'[r].req.nonce # ""
          /\ Deviates(now, slot'[r].req.timestamp))
         => (/\ slot'[r].pc \in {"done", "slack"}
             /\ slot'[r].err # NoError
             /\ usedNonces' = usedNonces
             /\ jobs' = jobs)]_vars

\* the status the interface prescribes for a failure class
PrescribedStatus(e) ==
    CASE e.kind = "BadRequestException" -> {400}
      [] e.kind = "UnauthorizedException" -> {401, 403}
      [] e.kind = "ForbiddenException" -> {401, 403}
      [] OTHER -> {500}

\* C7: a rejected request is answered with the status of its failure class:
\* 400 for missing headers, invalid payload, invalid signature or replay,
\* 401/403 for an authentication or IP failure, 500 for an internal error
\* (the notification sink having answered).
C7_StatusByFailureClass ==
    \A r \in Slots :
        (slot[r].pc = "done" /\ slot[r].err # NoError /\ slot[r].slack # "failed")
        => slot[r].resp.status \in PrescribedStatus(slot[r].err)

HeaderAbsent(req, name) ==
    CASE name = "Topic" -> req.topic = ""
      [] name = "Domain" -> req.domain = ""
      [] name = "WebhookId" -> req.webhookId = ""

Names(seq) == {seq[i] : i \in 1..Len(seq)}

\* C8: a request missing any of topic, shop domain or webhook id is rejected
\* with 400 and a message that lists every missing field, before any other
\* check runs and without any effect: no nonce recorded, no dedup entry
\* written, no job enqueued, no notification.
C8_HeadersValidatedFirst ==
    [][\A r \in Slots :
         (/\ slot[r].pc = "idle"
          /\ slot'[r].pc # "idle"
          /\ \E h \in {"Topic", "Domain", "WebhookId"} : HeaderAbsent(slot'[r].req, h))
         => (/\ slot'[r].pc = "done"
             /\ slot'[r].resp.status = 400
             /\ slot'[r].resp.message = "Missing required HTTP headers"
             /\ \A h \in {"Topic", "Domain", "WebhookId"} :
                   h \in Names(slot'[r].resp.missing) <=> HeaderAbsent(slot'[r].req, h)
             /\ slot'[r].ran = <<"headers">>
             /\ slot'[r].slack = "none"
             /\ usedNonces' = usedNonces
             /\ nonceLog' = nonceLog
             /\ store' = store
             /\ jobs' = jobs)]_vars

\* C8 witness: a request without topic and webhook id, from an IP outside the
\* allowlist, without signature and with a fresh nonce, was answered 400 naming
\* both fields; the nonce is not recorded.
C8_Witness ==
    \E r \in Slots :
        /\ slot[r].pc = "done"
        /\ slot[r].req.topic = "" /\ slot[r].req.webhookId = ""
        /\ slot[r].req.domain # ""
        /\ slot[r].req.ip \notin SHOPIFY_IPS
        /\ slot[r].req.hmac = NoSignature
        /\ slot[r].req.nonce = "n1"
        /\ slot[r].resp.status = 400
        /\ slot[r].resp.missing = <<"Topic", "WebhookId">>
        /\ "n1" \notin usedNonces

\* C9: a verified delivery whose topic has no registered handler is answered
\* 200 without an error and without a failure notification (Redis and the
\* notification sink answering).
C9_UnknownTopicAcknowledged ==
    \A r \in Slots :
        (/\ slot[r].pc = "done"
         /\ Verified(r)
         /\ Len(MatchingHandlers(slot[r].req.topic)) = 0
         /\ slot[r].err.message # "redis.get failed"
         /\ slot[r].slack # "failed")
        => (slot[r].resp.status = 200 /\ slot[r].err = NoError /\ slot[r].slack = "none")

\* maxAttempts of a job: what its creator asked for, 3 by default
ClaimedMaxAttempts(job) ==
    IF job.opts.attempts = <<>> THEN 3 ELSE job.opts.attempts[1]

\* C10: a job fails for good only after exactly maxAttempts attempts (default
\* 3), the controller's job included.
C10_FailedAfterMaxAttempts ==
    \A j \in 1..Len(jobs) :
        jobs[j].state = "failed" => jobs[j].attemptsMade = ClaimedMaxAttempts(jobs[j])

\* the alerts triggered for job j, each with the attempt it was triggered in
AlertsOf(j) == {a \in alerts : a[1] = j}

\* job j has exhausted its attempts: it has failed for good, or the handler
\* has thrown in its last attempt and Bull is about to fail it
Exhausted(j) ==
    \/ jobs[j].state = "failed"
    \/ /\ jobs[j].state = "active" /\ jobs[j].handled = "threw"
       /\ jobs[j].attemptsMade + 1 >= jobs[j].attempts

\* C11: over the lifetime of a job exactly one alert is triggered if the job
\* exhausts its attempts, at the attempt that exhausts them, and none
\* otherwise (no alert for a failed attempt short of maxAttempts, whatever the
\* error, and none for a job that completes).
C11_OneAlertAtExhaustion ==
    \A j \in 1..Len(jobs) :
        jobs[j].queue = "my-queue"
        => AlertsOf(j) = IF Exhausted(j) THEN {<<j, jobs[j].attempts>>} ELSE {}

\* the failure rate over the rolling window w is above pct percent
FailureRateAbove(w, pct) ==
    SumFires(w) > 0 /\ SumFailures(w) * 100 > pct * SumFires(w)

\* a call made while the circuit is open is refused without a call of the action
RefusedWhileOpen ==
    (breaker.state = "open" /\ breaker'.fired > breaker.fired)
    => (/\ breaker'.rejected = breaker.rejected + 1
        /\ breaker'.invoked = breaker.invoked
        /\ breaker'.inflight = breaker.inflight
        /\ breaker'.state = "open")

\* C12 as stated: whenever the failure rate over the rolling window exceeds
\* errorThresholdPercent (50) the circuit is open, and every call made while
\* it is open fails immediately without invoking the handler.
C12_OpenWheneverRateExceeds ==
    /\ [](FailureRateAbove(breaker.window, 50) => breaker.state = "open")
    /\ [][RefusedWhileOpen]_vars

\* C12 amended: a closed circuit is open as soon as a call fails or times out
\* while the failure rate over the rolling window, that failure counted,
\* exceeds errorThresholdPercent (50); every call made while it is open fails
\* immediately without invoking the handler.
C12_OpensOnFailureAboveThreshold ==
    [][/\ (/\ breaker.state = "closed"
           /\ breaker'.failed > breaker.failed
           /\ FailureRateAbove(breaker'.window, 50))
          => breaker'.state = "open"
       /\ RefusedWhileOpen]_vars

\* C12 witness: a success and a failure (rate 50 percent) left the circuit
\* closed, a second failure (2 of 3) opened it and the fourth call was refused.
C12_Witness ==
    /\ breaker.state = "open"
    /\ breaker.fired = 4 /\ breaker.invoked = 3 /\ breaker.rejected = 1
    /\ breaker.failed = 2 /\ breaker.inflight = <<>>
    /\ SumFires(breaker.window) = 4 /\ SumFailures(breaker.window) = 2

\* C13: an open circuit stays open until resetTimeout has elapsed since it
\* opened and then becomes half-open; in half-open one trial call is admitted
\* and no other call while the trial is pending; the trial's outcome decides
\* the next state: closed if it succeeds, open if it fails or times out.
C13_HalfOpenTrial ==
    /\ [](breaker.state = "open" => breaker.timer \in 0..(30000 \div 1000 - 1))
    /\ [](breaker.state = "halfOpen"
          => (Len(breaker.inflight) <= 1 /\ (breaker.pendingClose <=> breaker.inflight = <<>>)))
    /\ [][/\ breaker.state = "open"
             => \/ breaker'.state = "open" /\ breaker'.timer >= breaker.timer
                \/ /\ breaker'.state = "halfOpen"
                   /\ breaker.timer = 30000 \div 1000 - 1
                   /\ breaker'.fired = breaker.fired
          /\ (breaker.state = "halfOpen" /\ breaker'.fired > breaker.fired)
             => IF breaker.inflight = <<>>
                THEN breaker'.invoked = breaker.invoked + 1 /\ breaker'.state = "halfOpen"
                ELSE breaker'.invoked = breaker.invoked /\ breaker'.state = "halfOpen"
          /\ (breaker.state = "halfOpen" /\ Len(breaker'.inflight) < Len(breaker.inflight))
             => breaker'.state = IF breaker'.failed > breaker.failed THEN "open" ELSE "closed"
          /\ (breaker.state = "halfOpen" /\ breaker'.state # "halfOpen")
             => Len(breaker'.inflight) < Len(breaker.inflight)]_vars

\* C13 witness: the circuit is half-open, the trial call is in flight and a
\* second call made in the same bucket interval was refused.
C13_Witness ==
    /\ breaker.state = "halfOpen"
    /\ breaker.window[1].fires = 2
    /\ Len(breaker.inflight) = 1
    /\ breaker.invoked = 2 /\ breaker.rejected = 1 /\ breaker.failed = 1

\* the calls the running operation made for the topic at position k
CallsFor(k) == {i \in 1..Len(reg.calls) : reg.calls[i].idx = k}

FailedCallsFor(k) == {i \in CallsFor(k) : reg.calls[i].result # "success"}

\* C14: registerWebhooks takes the configured topics in list order and calls
\* the registration API at most 3 times per entry; an attempt fails when the
\* call throws or answers success=false; the attempts of an entry stop at its
\* first success; the first call for the next entry follows a success of the
\* current one; the operation has ended by its (3 x entries)-th call.
C14_RegistrationInOrderBounded ==
    reg.op = "register" =>
        LET c == reg.calls
            n == Len(reg.topics)
        IN /\ \A i \in 1..Len(c) :
                 /\ c[i].api = "register"
                 /\ c[i].idx \in 1..n
                 /\ c[i].topic = reg.topics[c[i].idx]
           /\ Len(c) > 0 => c[1].idx = 1
           /\ \A i \in 1..(Len(c) - 1) :
                 IF c[i].result = "success"
                 THEN c[i + 1].idx = c[i].idx + 1
                 ELSE c[i + 1].idx = c[i].idx
           /\ \A k \in 1..n : Cardinality(CallsFor(k)) <= 3
           /\ Len(c) <= 3 * n
           /\ reg.pc = "calling" => Len(c) < 3 * n

\* C14 witness: two topics; the first registered at its third attempt (after
\* success=false and a thrown call), the second at its second attempt.
C14_Witness ==
    /\ reg.op = "register" /\ reg.pc = "done" /\ reg.error = NoServiceError
    /\ reg.topics = <<"orders/create", "products/update">>
    /\ Len(reg.calls) = 5
    /\ reg.calls[1].result = "failure" /\ reg.calls[2].result = "throws"
    /\ reg.calls[3].result = "success" /\ reg.calls[4].result = "throws"
    /\ reg.calls[5].result = "success"

\* C15: when the registration of a topic has failed on all 3 attempts,
\* registerWebhooks has thrown WebhookRegistrationError naming that topic and
\* the shop, every earlier topic of the list is registered and no call was
\* made for a later topic.
C15_ExhaustionAborts ==
    reg.op = "register" =>
        \A k \in 1..Len(reg.topics) :
            Cardinality(FailedCallsFor(k)) >= 3
            => /\ reg.pc = "done"
               /\ reg.error = [name |-> "WebhookRegistrationError",
                               topic |-> reg.topics[k], shop |-> reg.shop]
               /\ \A j \in 1..(k - 1) : <<reg.shop, reg.topics[j]>> \in reg.registered
               /\ \A i \in 1..Len(reg.calls) : reg.calls[i].idx <= k

\* C15 witness: topics orders/create, products/update on a shop without
\* subscriptions; the second failed three times: the first is registered, the
\* second is not, the error names products/update.
C15_Witness ==
    /\ reg.op = "register" /\ reg.pc = "done"
    /\ reg.topics = <<"orders/create", "products/update">>
    /\ reg.shop = "b.myshopify.com"
    /\ reg.registered = {<<"b.myshopify.com", "orders/create">>}
    /\ reg.error.name = "WebhookRegistrationError"
    /\ reg.error.topic = "products/update"
    /\ Len(reg.calls) = 4

\* C16: unregisterWebhooks makes exactly one deleteAll call and never retries
\* it; it returns normally when the call succeeds and throws
\* WebhookUnregistrationError naming the shop when the call fails.
C16_UnregisterOnce ==
    reg.op = "unregister" =>
        /\ reg.pc = "calling" => reg.calls = <<>>
        /\ reg.pc = "done" =>
              /\ Len(reg.calls) = 1
              /\ reg.calls[1].api = "deleteAll"
              /\ reg.error = IF reg.calls[1].result = "success"
                             THEN [name |-> "", topic |-> "", shop |-> ""]
                             ELSE [name |-> "WebhookUnregistrationError",
                                   topic |-> "", shop |-> reg.shop]

\* C16 witness: the deleteAll call for shop b failed; the error names the shop
\* and the subscriptions registered before are still there.
C16_Witness ==
    /\ reg.op = "unregister" /\ reg.pc = "done"
    /\ reg.shop = "b.myshopify.com"
    /\ reg.error.name = "WebhookUnregistrationError"
    /\ reg.error.shop = "b.myshopify.com"
    /\ reg.registered = {<<"b.myshopify.com", "orders/create">>,
                         <<"b.myshopify.com", "products/update">>}

\* C17: a failure of the notification sink while a failed request is reported
\* is never propagated: the response is the one the original error determines
\* (the one given when the sink answers), whether the sink call succeeds or
\* throws.
C17_SinkFailureNotPropagated ==
    \A r \in Slots :
        (slot[r].pc = "done" /\ slot[r].slack # "none")
        => slot[r].resp = CatchResponse(slot[r].err, TRUE)

\* the job the controller enqueued for the webhook id
WebhookJobs(id) ==
    {j \in 1..Len(jobs) : jobs[j].name = "processWebhook" /\ jobs[j].data.webhookId = id}

\* C18: 200 'Webhook added to processing queue' is answered only after the job
\* has been enqueued; no step of a request invokes a handler (starts or ends
\* an attempt of a job); no attempt, retry or exhaustion of a job changes a
\* response, and a response given stays as it is.
C18_AckAtEnqueue ==
    /\ [](\A r \in Slots :
            slot[r].resp.message = "Webhook added to processing queue"
            => (/\ slot[r].resp.status = 200
                /\ WebhookJobs(slot[r].req.webhookId) # {}
                /\ \E i \in 1..Len(slot[r].ran) : slot[r].ran[i] = "enqueue"))
    /\ [][/\ slot' # slot
             => (Len(jobs') >= Len(jobs) /\ \A j \in 1..Len(jobs) : jobs'[j] = jobs[j])
          /\ (\E j \in 1..Len(jobs) : jobs'[j] # jobs[j]) => slot' = slot
          /\ \A r \in Slots :
                slot[r].pc = "done" => (slot'[r] = slot[r] \/ slot'[r].pc = "idle")]_vars

\* C18 witness: the delivery was answered 200 'added to processing queue' and
\* its job has since failed for good; the response stands.
C18_Witness ==
    \E r \in Slots :
        /\ slot[r].pc = "done"
        /\ slot[r].resp = [status |-> 200, success |-> TRUE,
                           message |-> "Webhook added to processing queue",
                           missing |-> <<>>]
        /\ \E j \in WebhookJobs(slot[r].req.webhookId) : jobs[j].state = "failed"

\* the verification steps of handleWebhook
VerificationSteps == {"payload", "ip", "auth", "signature", "nonce"}

\* C19: a request rejected by a verification step leaves the dedup store, the
\* queue and the recorded nonces unchanged and ends there (no retry): the
\* steps that follow the rejection (failure notification, log, response)
\* change none of them and never go back to the checks or on to the dedup
\* check; the only state the verification changes is adding the nonce of a
\* request that passed all the checks.
C19_RejectionChangesNothing ==
    [][\A r \in Slots :
         /\ (slot[r].pc = "idle" /\ slot'[r].pc # "idle")
            => /\ store' = store
               /\ jobs' = jobs
               /\ IF slot'[r].err # [kind |-> "", message |-> "", missing |-> <<>>]
                  THEN /\ slot'[r].pc \in {"done", "slack"}
                       /\ usedNonces' = usedNonces
                  ELSE /\ slot'[r].pc = "get"
                       /\ slot'[r].ran = <<"headers", "payload", "ip", "auth", "signature", "nonce">>
                       /\ usedNonces' = usedNonces \cup ({slot'[r].req.nonce} \ {""})
         /\ (slot[r].err # NoError /\ ~Verified(r) /\ slot'[r] # slot[r])
            => /\ slot'[r].pc \in {"log", "done", "idle"}
               /\ slot'[r].pc # "idle" => slot'[r].ran = slot[r].ran
               /\ store' = store
               /\ jobs' = jobs
               /\ usedNonces' = usedNonces]_vars

\* C19 witness: a request with a fresh nonce and a stale timestamp was rejected
\* by the last verification step; its nonce is not recorded, nothing is stored
\* or enqueued.
C19_Witness ==
    \E r \in Slots :
        /\ slot[r].pc = "done"
        /\ slot[r].ran = <<"headers", "payload", "ip", "auth", "signature", "nonce">>
        /\ slot[r].resp.status = 400
        /\ slot[r].resp.message = "Timestamp too old"
        /\ slot[r].req.nonce = "n1"
        /\ usedNonces = {}
        /\ jobs = <<>>
        /\ \A k \in CacheKeys : store[k] = <<>>

\* C20: canActivate returns true for every request whose x-csrf-token header
\* is a (non-empty) string, throws UnauthorizedException 'Missing CSRF token'
\* for every request without the header, and never returns false.
C20_CsrfGuardStringTokenPasses ==
    guard.outcome # [returns |-> "", throws |-> "", message |-> ""]
    => /\ guard.outcome.returns # "false"
       /\ (guard.header.type = "string" /\ guard.header.parts # <<<<"text", "">>>>)
          => guard.outcome = [returns |-> "true", throws |-> "", message |-> ""]
       /\ guard.header.type = "undefined"
          => guard.outcome = [returns |-> "", throws |-> "UnauthorizedException",
                              message |-> "Missing CSRF token"]

\* the calls in flight that time out when the next bucket interval ends
TimingOut == {i \in 1..Len(breaker.inflight) : breaker.inflight[i].age + 1 >= TimeoutTicks}

C22_CircuitPerTopic == breaker.rejectedTopics \subseteq breaker.failedTopics

\* the failed attempts made for the list entry of the i-th call before it
FailedBefore(i) ==
    Cardinality({k \in 1..(i - 1) : reg.calls[k].idx = reg.calls[i].idx})

\* a job's attempt has just thrown and the job waits for its next attempt
Backoff(j) ==
    /\ j \in 1..Len(jobs)
    /\ jobs[j].state = "active"
    /\ jobs'[j].state = "delayed"

\* C23: the delay between failed attempt n and attempt n + 1 is
\* 1000 * 2^(n - 1) milliseconds, 1000 after the first failure and 2000 after
\* the second, for queued jobs and for registration retries alike.
C23_DelayDoubles ==
    /\ [](\A i \in 1..Len(reg.calls) :
            (reg.calls[i].api = "register" /\ FailedBefore(i) > 0)
            => reg.calls[i].after = 1000 * Pow(2, FailedBefore(i) - 1))
    /\ [][\A j \in 1..MaxJobs :
            Backoff(j) => jobs'[j].runAt - now = 1000 * Pow(2, jobs'[j].attemptsMade - 1)]_vars

\* the nonce was accepted less than one replay window before time t
RecordedWithin(nonce, t) ==
    \E i \in 1..Len(nonceLog) :
        nonceLog[i][1] = nonce /\ t - nonceLog[i][2] < ReplayWindowMs

\* C24: a nonce is recorded for the length of the replay window: the recorded
\* nonces hold no nonce accepted a window or more ago, and a request is
\* rejected as a replay only when its nonce was accepted within the window
\* before it.
C24_NonceExpiresWithWindow ==
    /\ [](\A n \in usedNonces : RecordedWithin(n, now))
    /\ [][\A r \in Slots :
            (slot[r].pc = "idle" /\ slot'[r].pc # "idle"
             /\ slot'[r].err.message = "Nonce has already been used")
            => RecordedWithin(slot'[r].req.nonce, now)]_vars

\* job id is in the task queue
Queued(id) == id \in 1..Len(jobs) /\ jobs[id].state # "removed"

\* C25 as stated, counted from the call: removeJob(id) on an id that is not in
\* the queue changes nothing and raises no error; a job that has never run and
\* waits while a removeJob call for it is under way is not taken by a worker;
\* a removed job is never taken by a worker, and no step but the handler's
\* return or throw ends a job's run.
C25_RemoveCallOnWaitingJob ==
    [][/\ \A id \in 1..MaxJobs :
            (removeJob(id) /\ ~Queued(id))
            => (jobs' = jobs /\ taskQueue'.thrown = "" /\ taskQueue'.call = NoJobCall)
       /\ \A j \in 1..Len(jobs) :
            /\ (/\ taskQueue.call.op = "remove"
                /\ taskQueue.call.id = j
                /\ jobs[j].state = "waiting"
                /\ jobs[j].attemptsMade = 0)
               => jobs'[j].state \in {"waiting", "removed"}
            /\ jobs[j].state = "removed" => jobs'[j] = jobs[j]
            /\ jobs[j].state = "active"
               => jobs'[j].state \in {"active", "completed", "delayed", "waiting", "failed"}]_vars

\* C25, amended: removeJob(id) on an id that is not in the queue changes
\* nothing and raises no error; when the job.remove() of a call reaches the
\* queue, a job that is not running is removed (and a job that is gone stays
\* gone) without an error, and a job whose handler is running, taken by a
\* worker before or after the call's getJob, is left with its worker while
\* removeJob throws; a removed job is never taken by a worker, and no step but
\* the handler's return or throw ends a job's run.
C25_RemoveBeforeExecutionOnly ==
    [][/\ \A id \in 1..MaxJobs :
            (removeJob(id) /\ ~Queued(id))
            => (jobs' = jobs /\ taskQueue'.thrown = "" /\ taskQueue'.call = NoJobCall)
       /\ (JobCallAnswer /\ taskQueue.call.op = "remove")
          => IF jobs[taskQueue.call.id].state = "active"
             THEN jobs' = jobs /\ taskQueue'.thrown = "Could not remove job"
             ELSE /\ jobs' = [jobs EXCEPT ![taskQueue.call.id].state = "removed"]
                  /\ taskQueue'.thrown = ""
       /\ \A j \in 1..Len(jobs) :
            /\ jobs[j].state = "removed" => jobs'[j] = jobs[j]
            /\ jobs[j].state = "active"
               => jobs'[j].state \in {"active", "completed", "delayed", "waiting", "failed"}]_vars

\* C25 witness: the job was removed while it waited, time has passed, and its
\* handler has not been invoked.
C25_Witness ==
    /\ Len(jobs) = 1
    /\ jobs[1].state = "removed"
    /\ jobs[1].attemptsMade = 0
    /\ jobs[1].finishedOn = 0
    /\ taskQueue.thrown = ""
    /\ now > StartMs

\* the events the claim gives the i-th call of register: a success event, or
\* a retry event, followed by the failure event when the call is the third
\* failed attempt for its list entry
ClaimedEvents(i) ==
    LET c == reg.calls[i] IN
    IF c.result = "success" THEN <<[name |-> "registration_success", topic |-> c.topic]>>
    ELSE IF FailedBefore(i) = 2
         THEN <<[name |-> "registration_retry", topic |-> c.topic],
                [name |-> "registration_failure", topic |-> c.topic]>>
         ELSE <<[name |-> "registration_retry", topic |-> c.topic]>>

RECURSIVE ClaimedEventsUpTo(_)
ClaimedEventsUpTo(n) ==
    IF n = 0 THEN <<>> ELSE ClaimedEventsUpTo(n - 1) \o ClaimedEvents(n)

\* C26: registration emits one event per attempt and one per exhaustion, in
\* the order of the attempts: a success event for the attempt that succeeds, a
\* retry event for each failed attempt, and after the third failed attempt of
\* a topic one failure event; a topic that succeeded has no failure event.
C26_OneEventPerAttemptAndExhaustion ==
    reg.op = "register"
    => /\ reg.events = ClaimedEventsUpTo(Len(reg.calls))
       /\ \A i \in 1..Len(reg.events) :
            reg.events[i].name = "registration_failure"
            => /\ i = Len(reg.events)
               /\ reg.error.name = "WebhookRegistrationError"
               /\ reg.calls[Len(reg.calls)].result # "success"

\* C26 witness: the first topic succeeded on its second attempt and the second
\* failed three times: a retry and a success event, then three retry events
\* and one failure event.
C26_Witness ==
    /\ reg.op = "register"
    /\ reg.pc = "done"
    /\ reg.topics = <<"orders/create", "products/update">>
    /\ reg.events = <<[name |-> "registration_retry", topic |-> "orders/create"],
                      [name |-> "registration_success", topic |-> "orders/create"],
                      [name |-> "registration_retry", topic |-> "products/update"],
                      [name |-> "registration_retry", topic |-> "products/update"],
                      [name |-> "registration_retry", topic |-> "products/update"],
                      [name |-> "registration_failure", topic |-> "products/update"]>>

\* the invocation in slot r ended at the dedup check: the entry of its
\* webhook id was found
ShortCircuited(r) ==
    /\ slot[r].pc = "done"
    /\ slot[r].ran # <<>>
    /\ slot[r].ran[Len(slot[r].ran)] = "dedup"
    /\ slot[r].err.message # "redis.get failed"

\* C27: a dedup entry for a webhook id exists only if a job for that id has
\* been enqueued; after a failed enqueue or a topic without handler there is
\* no entry, and a delivery is cut short at the dedup check only when a job
\* for its webhook id exists.
C27_DedupEntryImpliesJob ==
    /\ \A k \in CacheKeys : store[k] # <<>> => WebhookJobs(k) # {}
    /\ \A r \in Slots : ShortCircuited(r) => WebhookJobs(slot[r].req.webhookId) # {}

\* C27 witness: the enqueue of a verified delivery failed; there is no job
\* and no dedup entry for its webhook id.
C27_Witness ==
    \E r \in Slots :
        /\ slot[r].pc = "done"
        /\ slot[r].err.message = "queue.add failed"
        /\ slot[r].req.webhookId = "abc-1"
        /\ WebhookJobs("abc-1") = {}
        /\ store["abc-1"] = <<>>

\* the invocation in slot q passed the verification and ended in a 500
FailedAfterVerification(q) ==
    /\ slot[q].pc = "done"
    /\ Verified(q)
    /\ slot[q].resp.status = 500

\* C28: the identical redelivery of a delivery that ended in a 500 after its
\* verification is not rejected as a replay: it passes the verification
\* again; and it leads to one job for its webhook id in total: if the failed
\* delivery had enqueued its job already, the dedup entry is there to stop the
\* redelivery from enqueuing another.
C28_RedeliveryAfterInternalError ==
    [][\A q, r \in Slots :
         (FailedAfterVerification(q) /\ slot[r].pc = "idle" /\ slot'[r].pc # "idle"
          /\ slot'[r].req = slot[q].req)
         => /\ slot'[r].pc = "get"
            /\ WebhookJobs(slot[q].req.webhookId) # {}
               => RedisGet(store, slot[q].req.webhookId, now) # <<>>]_vars

\* SHOPIFY_WEBHOOK_TOPICS is unset or the empty string
EmptyTopicConfig(config) == ~config.set \/ config.text = <<>>

\* C29: with an empty topic configuration registerWebhooks makes no call to
\* the registration API and returns normally; every registration call is for
\* a non-empty topic name that appears in the configuration.
C29_NoCallWithoutTopic ==
    reg.op = "register"
    => /\ \A i \in 1..Len(reg.calls) :
            /\ reg.calls[i].topic # ""
            /\ \E k \in 1..Len(reg.config.text) : reg.config.text[k] = reg.calls[i].topic
       /\ EmptyTopicConfig(reg.config)
          => (reg.calls = <<>> /\ reg.error = NoServiceError)

\* C30 as stated: no job has made more attempts than its configured attempts,
\* and a job in the terminal failed state stays there until it is removed.
C30_AttemptsWithinConfigured ==
    /\ [](\A j \in 1..Len(jobs) : jobs[j].attemptsMade <= jobs[j].attempts)
    /\ [][\A j \in 1..Len(jobs) :
            jobs[j].state = "failed" => jobs'[j].state \in {"failed", "removed"}]_vars

\* C30: a job has made at most its configured attempts (3 by default) plus
\* one for each retryJob that took it out of the failed state, so a job never
\* retried stays within its configured attempts; a job in the terminal failed
\* state leaves it only by removal or by retryJob on its id, which puts it
\* back to waiting with its attempts made kept, for one more execution.
C30_AttemptsWithinConfiguredPlusRetries ==
    /\ [](\A j \in 1..Len(jobs) :
            /\ jobs[j].attemptsMade <= jobs[j].attempts + jobs[j].retried
            /\ jobs[j].state = "failed"
               => jobs[j].attemptsMade = jobs[j].attempts + jobs[j].retried)
    /\ [][\A j \in 1..Len(jobs) :
            jobs[j].state = "failed"
            => \/ jobs'[j].state \in {"failed", "removed"}
               \/ /\ JobCallAnswer
                  /\ taskQueue.call.op = "retry" /\ taskQueue.call.id = j
                  /\ jobs'[j] = [jobs[j] EXCEPT !.state = "waiting", !.finishedOn = 0,
                                                !.retried = jobs[j].retried + 1]]_vars

\* C30 witness: a task with the default 3 attempts failed for good, was put
\* back by retryJob, was executed a fourth time and failed again.
C30_Witness ==
    /\ Len(jobs) = 1
    /\ jobs[1].queue = TaskQueueName
    /\ jobs[1].attempts = AddTaskAttempts
    /\ jobs[1].state = "failed"
    /\ jobs[1].retried = 1
    /\ jobs[1].attemptsMade = AddTaskAttempts + 1

====
